---- MODULE Spec2Model ----
(***************************************************************************)
(* vpptop: the statistics aggregator (package stats), and the polling      *)
(* application built on it (package client).                               *)
(*                                                                         *)
(* The module holds several specifications over one set of variables:      *)
(*   SpecErr  - the error-counter baseline: GetErrors, ClearErrorCounters  *)
(*              and updateLastErrors against an engine whose counters grow *)
(* Variables a specification does not use keep their initial value.        *)
(***************************************************************************)
EXTENDS Integers, Sequences, FiniteSets, TLC

(***************************************************************************)
(* Bounds of the model.                                                    *)
(***************************************************************************)
\* uint64 arithmetic is modelled modulo UintMod: 2^30, the width scaled down
\* to the integers of the model checker.
UintMod == 1073741824
\* The number of packets the engine's interface counters hold at most.
MaxTraffic == 2
\* The size in bytes of every packet the engine's interfaces see.
PacketSize == 2
\* The largest value an engine error counter reaches.
MaxErr == 2

VARIABLES
    op,                 \* history: the operation the last step performed
    errCounters,        \* engine: the raw node counters, in the engine's order
    lastErrorCounters,  \* VPP.lastErrorCounters: key -> baseline value
    errResult,          \* what GetErrors returned, when it was the last step
    sinceClear,         \* history: ClearErrorCounters returned, and neither the
                        \* engine nor GetErrors has moved since
    giPc,               \* GetInterfaces: where its caller's goroutine is
    giRet,              \* GetInterfaces: what it returned
    fetchPc,            \* GetInterfaces: where each fetch goroutine is
    fetchErr,           \* GetInterfaces: the err of each fetch, once it has replied
    closerPc,           \* GetInterfaces: where the goroutine closing errChan is
    giWg,               \* GetInterfaces: the counter of its WaitGroup
    errChan,            \* GetInterfaces: the buffered errors in errChan
    chanClosed,         \* GetInterfaces: errChan has been closed
    ifState,            \* engine: per interface "absent", "present" or "deleted"
    ifCounters,         \* engine: per interface the packets received and sent
    IfCache,            \* App.IfCache: the previous interface sample
    sortBy,             \* App.sortBy: per tab [asc, field]
    currTab,            \* App.currTab
    view,               \* the rows last pushed to each tab's view
    lastGood,           \* history: the sample of the last successful GetInterfaces
    tickPc,             \* the ticking goroutine: where it is
    tickTab,            \* the ticking goroutine: the tab currTab() returned
    tickLog,            \* history of the tick in progress: its reads of the tab,
                        \* the fetches it issued and the views it updated
    clearPc,            \* per clear task: where it is
    clearTab,           \* per clear task: the tab of its event
    sortPc,             \* per sort task: where it is
    sortReq,            \* per sort task: the payload [CurrTab, CurrRow] of its event
    uiPc,               \* the display's event loop: the callback it is in
    uiArg,              \* the payload of the tab-switch event being handled
    vppLock,            \* App.vppLock: its holder, or "free"
    tabLock,            \* App.tabLock: its holder, or "free"
    sortLock,           \* App.sortLock: its holder, or "free"
    wg,                 \* App.wg: the counter of the WaitGroup
    cancelled,          \* app.cancel() has been called: ctx.Done() is ready
    guiLive,            \* the display has not been destroyed
    connLive,           \* the connection has not been disconnected
    abandoned,          \* fetch goroutines of GetInterfaces calls that have returned
    sortBefore,         \* history: per tab, the column of its last sort event and
                        \* the sort setting that held before that event
    cPc,                \* App.Init and the connect it calls: where it is
    cMode,              \* "direct" (Connect) or "remote" (ConnectRemote)
    cRet,               \* what the connect returned, "none" before
    attempts,           \* proxy.Connect calls made by ConnectRemote
    sleeps,             \* time.Sleep(1s) calls made by ConnectRemote
    client,             \* the proxy client / the govpp connection exists
    statsOpen,          \* s.statsConn is open
    openChans,          \* the API channels open (apiChan and channels[i])
    compat,             \* the versions whose messages the engine is compatible with
    remaining,          \* the versions the loop has not visited yet
    registered,         \* the versions whose messages are registered with gob
    selected,           \* the version the loop stopped at, "none" before
    prevSelected,       \* history: the version the previous run selected
    runNo,              \* the runs started against this engine
    callLog,            \* history: the delegated calls, with what was registered then
    guiInit,            \* app.gui.Init() has been called
    endpoint,           \* the delegation endpoint at the address
    bPc,                \* nodeCmd.RunE: where it is
    probes,             \* proxy.Connect calls made by nodeCmd.RunE
    callPc,             \* one call of a function on given replies: "idle" when
                        \* none is made, "ready" before it, "returned" after it
    callIn,             \* the engine's replies the call works on
    callOut             \* what the call returned

errVars == <<errCounters, lastErrorCounters, errResult, sinceClear>>
giVars == <<giPc, giRet, fetchPc, fetchErr, closerPc, giWg, errChan, chanClosed>>
engIfVars == <<ifState, ifCounters>>
appVars == <<IfCache, sortBy, currTab, view, lastGood>>
taskVars == <<tickPc, tickTab, tickLog, clearPc, clearTab, sortPc, sortReq, uiPc, uiArg>>
syncVars == <<vppLock, tabLock, sortLock, wg, cancelled, guiLive, connLive, abandoned>>
histVars == <<sortBefore>>
connVars == <<cPc, cMode, cRet, attempts, sleeps, client, statsOpen, openChans,
              compat, remaining, registered, selected, prevSelected, runNo,
              callLog, guiInit>>
bootVars == <<endpoint, bPc, probes>>
callVars == <<callPc, callIn, callOut>>
vars == <<op, errVars, giVars, engIfVars, appVars, taskVars, syncVars, histVars,
          connVars, bootVars, callVars>>

\* What the actions of one part of the model leave alone.
exceptGi == <<errVars, engIfVars, appVars, taskVars, syncVars, histVars,
    connVars, bootVars, callVars>>
exceptErr == <<giVars, engIfVars, appVars, taskVars, syncVars, histVars,
    connVars, bootVars, callVars>>
exceptPoll == <<giVars, taskVars, syncVars, histVars,
    connVars, bootVars, callVars>>
exceptRun == <<giVars, errVars, engIfVars, IfCache, view, lastGood, histVars,
    connVars, bootVars, callVars>>

\* The history variable op: the operation, whether its (first) engine fetch
\* succeeded, and an argument (a tab, a counter, a task).
Op(name, ok, arg) == [name |-> name, ok |-> ok, arg |-> arg]

(***************************************************************************)
(* Go values.                                                              *)
(***************************************************************************)
\* A Go map read: the zero value when the key is absent.
MapGet(m, k) == IF k \in DOMAIN m THEN m[k] ELSE 0

\* A Go map write m[k] = v.
MapPut(m, k, v) == [x \in DOMAIN m \cup {k} |-> IF x = k THEN v ELSE m[x]]

\* uint64 subtraction: it wraps around.
USub(a, b) == (a - b) % UintMod

\* make(map[string]uint64)
EmptyMap == [x \in {} |-> 0]

(***************************************************************************)
(* The engine's node (error) counters.  telemetry.NodeCounter is           *)
(* {Value, Name, Node}; the engine reports the same counters in the same   *)
(* order on every call.                                                    *)
(***************************************************************************)
NodeCounterIds ==
    << [Node |-> "node1", Name |-> "err-a"],
       [Node |-> "node1", Name |-> "err-b"],
       [Node |-> "node2", Name |-> "err-a"] >>

NumErr == Len(NodeCounterIds)

\* The key of a counter in lastErrorCounters: counter.Node+counter.Name.
ErrKey(c) == c.Node \o c.Name

\* The reply of GetNodeCounters: the engine's counters, with their values.
RawCounters(values) ==
    [i \in 1..NumErr |->
        [Node |-> NodeCounterIds[i].Node, Name |-> NodeCounterIds[i].Name,
         Value |-> values[i]]]

(***************************************************************************)
(* VPP.GetErrors: the loop over the raw counters.                          *)
(***************************************************************************)
RECURSIVE GetErrorsLoop_KeepZero(_, _, _)
GetErrorsLoop_KeepZero(counters, last, result) ==
    IF counters = << >> THEN result
    ELSE LET counter == Head(counters)
             value == USub(counter.Value, MapGet(last, ErrKey(counter)))
         IN  GetErrorsLoop_KeepZero(Tail(counters), last,
                 Append(result, [counter EXCEPT !.Value = value]))

RECURSIVE GetErrorsLoop(_, _, _)
GetErrorsLoop(counters, last, result) ==
    IF counters = << >> THEN result
    ELSE LET counter == Head(counters)
             value == USub(counter.Value, MapGet(last, ErrKey(counter)))
         IN  IF value = 0
             THEN GetErrorsLoop(Tail(counters), last, result)
             ELSE GetErrorsLoop(Tail(counters), last,
                      Append(result, [counter EXCEPT !.Value = value]))

\* No GetErrors call has just returned; also its (nil, err) return.
NoResult == [ok |-> FALSE, list |-> << >>]

\* The return value of GetErrors: (nil, err) when the fetch failed.
GetErrorsResult(fetchOk, values, last) ==
    IF fetchOk
    THEN [ok |-> TRUE, list |-> GetErrorsLoop(RawCounters(values), last, << >>)]
    ELSE NoResult

(***************************************************************************)
(* VPP.updateLastErrors: the baseline after the call.                      *)
(***************************************************************************)
RECURSIVE UpdateLoop(_, _)
UpdateLoop(counters, last) ==
    IF counters = << >> THEN last
    ELSE LET counter == Head(counters)
         IN  IF counter.Value = 0
             THEN UpdateLoop(Tail(counters), last)
             ELSE UpdateLoop(Tail(counters),
                      MapPut(last, ErrKey(counter), counter.Value))

updateLastErrors(fetchOk, values, last) ==
    IF fetchOk THEN UpdateLoop(RawCounters(values), last) ELSE last

(***************************************************************************)
(* VPP.GetInterfaces, goroutine by goroutine: the caller, the two fetch    *)
(* goroutines (interface details, interface counters) and the goroutine    *)
(* that closes errChan.                                                    *)
(***************************************************************************)
Fetches == {"DumpInterfaces", "GetInterfaceStats"}

\* errChan := make(chan error, 2)
ErrChanCap == 2

\* No call of GetInterfaces is under way.
GiIdle ==
    /\ giPc = "idle"
    /\ giRet = [err |-> FALSE, list |-> "none"]
    /\ fetchPc = [f \in Fetches |-> "idle"]
    /\ fetchErr = [f \in Fetches |-> "pending"]
    /\ closerPc = "idle"
    /\ giWg = 0
    /\ errChan = << >>
    /\ chanClosed = FALSE

\* wg.Wait() returns when the counter is 0.
WaitReturns_NoWait(n) == TRUE

WaitReturns(n) == n = 0

\* GetInterfaces is called: wg.Add(2), make(chan error, 2), three go statements.
GiCall ==
    /\ giPc = "idle"
    /\ giPc' = "range"
    /\ giWg' = Cardinality(Fetches)
    /\ errChan' = << >>
    /\ chanClosed' = FALSE
    /\ closerPc' = "wait"
    /\ fetchPc' = [f \in Fetches |-> "fetching"]
    /\ fetchErr' = [f \in Fetches |-> "pending"]
    /\ op' = Op("GetInterfaces", TRUE, 0)
    /\ UNCHANGED <<giRet, exceptGi>>

\* A fetch goroutine's engine call returns, with or without an error.
FetchReply(f) ==
    \E err \in {"nil", "err"} :
        /\ fetchPc[f] = "fetching"
        /\ fetchPc' = [fetchPc EXCEPT ![f] = "send"]
        /\ fetchErr' = [fetchErr EXCEPT ![f] = err]
        /\ op' = Op(f, err = "nil", 0)
        /\ UNCHANGED <<giPc, giRet, closerPc, giWg, errChan, chanClosed, exceptGi>>

\* errChan <- err: blocks while the buffer is full; a send on a closed channel
\* panics.
FetchSend(f) ==
    /\ fetchPc[f] = "send"
    /\ Len(errChan) < ErrChanCap
    /\ fetchPc' = [fetchPc EXCEPT ![f] = IF chanClosed THEN "panic" ELSE "sent"]
    /\ errChan' = IF chanClosed THEN errChan ELSE Append(errChan, fetchErr[f])
    /\ op' = Op("send", TRUE, 0)
    /\ UNCHANGED <<giPc, giRet, fetchErr, closerPc, giWg, chanClosed, exceptGi>>

\* defer wg.Done()
FetchDone(f) ==
    /\ fetchPc[f] = "sent"
    /\ fetchPc' = [fetchPc EXCEPT ![f] = "done"]
    /\ giWg' = giWg - 1
    /\ op' = Op("wg.Done", TRUE, 0)
    /\ UNCHANGED <<giPc, giRet, fetchErr, closerPc, errChan, chanClosed, exceptGi>>

\* wg.Wait(); close(errChan)
CloserClose ==
    /\ closerPc = "wait"
    /\ WaitReturns(giWg)
    /\ closerPc' = "done"
    /\ chanClosed' = TRUE
    /\ op' = Op("close", TRUE, 0)
    /\ UNCHANGED <<giPc, giRet, fetchPc, fetchErr, giWg, errChan, exceptGi>>

\* for err := range errChan: one value is received; a non-nil one makes
\* GetInterfaces return (nil, error).
GiReceive ==
    /\ giPc = "range"
    /\ errChan # << >>
    /\ errChan' = Tail(errChan)
    /\ IF Head(errChan) # "nil"
       THEN /\ giPc' = "returned"
            /\ giRet' = [err |-> TRUE, list |-> "nil"]
       ELSE UNCHANGED <<giPc, giRet>>
    /\ op' = Op("receive", Head(errChan) = "nil", 0)
    /\ UNCHANGED <<fetchPc, fetchErr, closerPc, giWg, chanClosed, exceptGi>>

\* The range loop ends on the closed, drained channel: the join of the two
\* replies is returned with a nil error.
GiJoin ==
    /\ giPc = "range"
    /\ errChan = << >>
    /\ chanClosed
    /\ giPc' = "returned"
    /\ giRet' = [err |-> FALSE, list |-> "joined"]
    /\ op' = Op("join", TRUE, 0)
    /\ UNCHANGED <<fetchPc, fetchErr, closerPc, giWg, errChan, chanClosed, exceptGi>>

\* Every goroutine of the call has ended: the next call can be told apart.
GiNext ==
    /\ giPc = "returned"
    /\ closerPc = "done"
    /\ \A f \in Fetches : fetchPc[f] = "done"
    /\ giPc' = "idle"
    /\ giRet' = [err |-> FALSE, list |-> "none"]
    /\ fetchPc' = [f \in Fetches |-> "idle"]
    /\ fetchErr' = [f \in Fetches |-> "pending"]
    /\ closerPc' = "idle"
    /\ op' = Op("idle", TRUE, 0)
    /\ UNCHANGED <<giWg, errChan, chanClosed, exceptGi>>

NextGI ==
    \/ GiCall
    \/ \E f \in Fetches : FetchReply(f) \/ FetchSend(f) \/ FetchDone(f)
    \/ CloserClose
    \/ GiReceive
    \/ GiJoin
    \/ GiNext

(***************************************************************************)
(* SpecErr: the actions.                                                   *)
(***************************************************************************)
\* Connect / ConnectRemote: s.lastErrorCounters = make(map[string]uint64).
ErrInit ==
    /\ errCounters = [i \in 1..NumErr |-> 0]
    /\ lastErrorCounters = EmptyMap
    /\ errResult = NoResult
    /\ sinceClear = FALSE

\* The engine counts an error: a counter grows.
EngineError ==
    \E i \in 1..NumErr :
        /\ errCounters[i] < MaxErr
        /\ errCounters' = [errCounters EXCEPT ![i] = @ + 1]
        /\ op' = Op("EngineError", TRUE, i)
        /\ sinceClear' = FALSE
        /\ errResult' = NoResult
        /\ UNCHANGED <<lastErrorCounters, exceptErr>>

\* A call of VPP.GetErrors.
GetErrors ==
    \E fetchOk \in BOOLEAN :
        /\ errResult' = GetErrorsResult(fetchOk, errCounters, lastErrorCounters)
        /\ op' = Op("GetErrors", fetchOk, 0)
        /\ sinceClear' = FALSE
        /\ UNCHANGED <<errCounters, lastErrorCounters, exceptErr>>

\* A call of VPP.ClearErrorCounters: the snapshot, then the "clear errors"
\* command, which may fail, and which the engine may or may not honour by
\* zeroing its counters.
ClearErrorCounters ==
    \E fetchOk \in BOOLEAN, cliOk \in BOOLEAN, zeroes \in BOOLEAN :
        /\ lastErrorCounters' =
               updateLastErrors(fetchOk, errCounters, lastErrorCounters)
        /\ errCounters' = IF cliOk /\ zeroes
                          THEN [i \in 1..NumErr |-> 0]
                          ELSE errCounters
        /\ op' = Op("ClearErrorCounters", fetchOk, 0)
        /\ sinceClear' = TRUE
        /\ errResult' = NoResult
        /\ UNCHANGED exceptErr

NextErr == EngineError \/ GetErrors \/ ClearErrorCounters

(***************************************************************************)
(* The tabs (client/app.go) and the per-tab sort setting.                  *)
(***************************************************************************)
Interfaces == 0
Nodes == 1
Errors == 2
Memory == 3
Threads == 4

Tabs == {Interfaces, Nodes, Errors, Memory, Threads}

\* The field value of a tab that has no sort column.
NoColumn == -1

(***************************************************************************)
(* The engine's interfaces.  Interface i has index i and name IfNames[i];  *)
(* the engine counts the packets it receives and sends, each of            *)
(* PacketSize bytes.  An interface can appear and can be deleted.          *)
(***************************************************************************)
IfNames == << "eth0", "eth1" >>

NumIf == Len(IfNames)

\* The configuration view of each interface (ifplugin.InterfaceDetails).
IfDetails ==
    << [Enabled |-> TRUE,  IpAddresses |-> << "10.0.0.1/24" >>,
        MTU |-> << 1500, 0, 0, 0 >>],
       [Enabled |-> FALSE, IpAddresses |-> << >>,
        MTU |-> << 9000, 0, 0, 0 >>] >>

EngineIfInit ==
    /\ ifState = [i \in 1..NumIf |-> IF i = 1 THEN "present" ELSE "absent"]
    /\ ifCounters = [i \in 1..NumIf |-> [rx |-> 0, tx |-> 0]]

RECURSIVE SumTraffic(_, _)
SumTraffic(counters, i) ==
    IF i = 0 THEN 0
    ELSE counters[i].rx + counters[i].tx + SumTraffic(counters, i - 1)

\* One entry of api.InterfaceStats.Interfaces.
StatsEntry(i, counters) ==
    [InterfaceIndex |-> i, InterfaceName |-> IfNames[i],
     RxPackets |-> counters[i].rx, RxBytes |-> counters[i].rx * PacketSize,
     TxPackets |-> counters[i].tx, TxBytes |-> counters[i].tx * PacketSize]

\* The reply of GetInterfaceStats: the present interfaces, by index.
RECURSIVE InterfaceStatsReply(_, _, _)
InterfaceStatsReply(state, counters, i) ==
    IF i > NumIf THEN << >>
    ELSE IF state[i] = "present"
         THEN << StatsEntry(i, counters) >>
                  \o InterfaceStatsReply(state, counters, i + 1)
         ELSE InterfaceStatsReply(state, counters, i + 1)

\* The reply of DumpInterfaces: index -> details, for the present interfaces.
DumpInterfacesReply(state) ==
    [i \in {j \in 1..NumIf : state[j] = "present"} |-> IfDetails[i]]

(***************************************************************************)
(* VPP.GetInterfaces: the join of the two replies.                         *)
(***************************************************************************)
RECURSIVE JoinInterfaces_AlwaysUp(_, _, _)
JoinInterfaces_AlwaysUp(stats, details, result) ==
    IF stats = << >> THEN result
    ELSE LET iface == Head(stats)
         IN  IF iface.InterfaceIndex \notin DOMAIN details
             THEN JoinInterfaces_AlwaysUp(Tail(stats), details, result)
             ELSE LET d == details[iface.InterfaceIndex]
                  IN  JoinInterfaces_AlwaysUp(Tail(stats), details,
                          Append(result,
                              [InterfaceIndex |-> iface.InterfaceIndex,
                               InterfaceName |-> iface.InterfaceName,
                               RxPackets |-> iface.RxPackets,
                               RxBytes |-> iface.RxBytes,
                               TxPackets |-> iface.TxPackets,
                               TxBytes |-> iface.TxBytes,
                               IPAddrs |-> d.IpAddresses,
                               State |-> "up",
                               MTU |-> d.MTU]))

RECURSIVE JoinInterfaces(_, _, _)
JoinInterfaces(stats, details, result) ==
    IF stats = << >> THEN result
    ELSE LET iface == Head(stats)
         IN  IF iface.InterfaceIndex \notin DOMAIN details
             THEN JoinInterfaces(Tail(stats), details, result)
             ELSE LET d == details[iface.InterfaceIndex]
                  IN  JoinInterfaces(Tail(stats), details,
                          Append(result,
                              [InterfaceIndex |-> iface.InterfaceIndex,
                               InterfaceName |-> iface.InterfaceName,
                               RxPackets |-> iface.RxPackets,
                               RxBytes |-> iface.RxBytes,
                               TxPackets |-> iface.TxPackets,
                               TxBytes |-> iface.TxBytes,
                               IPAddrs |-> d.IpAddresses,
                               State |-> IF d.Enabled THEN "up" ELSE "down",
                               MTU |-> d.MTU]))

\* What GetInterfaces returns: (nil, error) when a fetch failed.
GetInterfacesResult(fetchOk, state, counters) ==
    IF fetchOk
    THEN JoinInterfaces(InterfaceStatsReply(state, counters, 1),
                        DumpInterfacesReply(state), << >>)
    ELSE << >>

(***************************************************************************)
(* App.sortInterfaceStats: with no sort column the sample keeps its order; *)
(* otherwise it is ordered by the column, ascending or descending (a       *)
(* stable insertion sort on the numeric columns).                          *)
(***************************************************************************)
IfSortKey(iface, field) ==
    CASE field = 1 -> iface.InterfaceIndex
      [] field = 7 -> iface.RxPackets
      [] field = 8 -> iface.RxBytes
      [] field = 16 -> iface.TxPackets
      [] field = 17 -> iface.TxBytes
      [] OTHER -> 0

RECURSIVE InsertSorted(_, _, _, _)
InsertSorted(sorted, x, field, asc) ==
    IF sorted = << >> THEN << x >>
    ELSE LET h == Head(sorted)
             before == IF asc THEN IfSortKey(x, field) < IfSortKey(h, field)
                              ELSE IfSortKey(x, field) > IfSortKey(h, field)
         IN  IF before THEN << x >> \o sorted
             ELSE << h >> \o InsertSorted(Tail(sorted), x, field, asc)

RECURSIVE SortLoop(_, _, _, _)
SortLoop(rest, sorted, field, asc) ==
    IF rest = << >> THEN sorted
    ELSE SortLoop(Tail(rest), InsertSorted(sorted, Head(rest), field, asc),
                  field, asc)

sortInterfaceStats(ifaces, field, asc) ==
    IF field = NoColumn THEN ifaces ELSE SortLoop(ifaces, << >>, field, asc)

(***************************************************************************)
(* App.formatInterfaces.  The 11 table rows of an interface are one record *)
(* here, holding the cells that depend on the sample: the identity, the    *)
(* counters and the four rates.                                            *)
(***************************************************************************)
\* nameToIdx: the last position in the cache of each name.
nameToIdx(cache) ==
    [n \in {cache[i].InterfaceName : i \in 1..Len(cache)} |->
        CHOOSE i \in 1..Len(cache) :
            /\ cache[i].InterfaceName = n
            /\ \A j \in 1..Len(cache) : cache[j].InterfaceName = n => j <= i]

IfaceRows(iface, rxpps, txpps, rxbbs, txbbs) ==
    [Name |-> iface.InterfaceName,
     Index |-> ToString(iface.InterfaceIndex),
     State |-> iface.State,
     RxPackets |-> ToString(iface.RxPackets),
     TxPackets |-> ToString(iface.TxPackets),
     RxBytes |-> ToString(iface.RxBytes),
     TxBytes |-> ToString(iface.TxBytes),
     RxPps |-> ToString(rxpps), TxPps |-> ToString(txpps),
     RxBps |-> ToString(rxbbs), TxBps |-> ToString(txbbs)]

\* The rows, with the rates taken against the cache entry at the same
\* position instead of the one of the same name.
formatInterfaces_ByPosition(ifaces, cache) ==
    [i \in 1..Len(ifaces) |->
        IF i <= Len(cache)
        THEN IfaceRows(ifaces[i],
                 USub(ifaces[i].RxPackets, cache[i].RxPackets),
                 USub(ifaces[i].TxPackets, cache[i].TxPackets),
                 USub(ifaces[i].RxBytes, cache[i].RxBytes),
                 USub(ifaces[i].TxBytes, cache[i].TxBytes))
        ELSE IfaceRows(ifaces[i], 0, 0, 0, 0)]

formatInterfaces(ifaces, cache) ==
    LET idx == nameToIdx(cache)
    IN  [i \in 1..Len(ifaces) |->
            LET iface == ifaces[i]
            IN  IF iface.InterfaceName \in DOMAIN idx
                THEN LET prev == cache[idx[iface.InterfaceName]]
                     IN  IfaceRows(iface,
                             USub(iface.RxPackets, prev.RxPackets),
                             USub(iface.TxPackets, prev.TxPackets),
                             USub(iface.RxBytes, prev.RxBytes),
                             USub(iface.TxBytes, prev.TxBytes))
                ELSE IfaceRows(iface, 0, 0, 0, 0)]

(***************************************************************************)
(* The application: its state after NewApp and Init.                       *)
(***************************************************************************)
AppInit ==
    /\ IfCache = << >>
    /\ sortBy = [t \in Tabs |-> [asc |-> TRUE, field |-> NoColumn]]
    /\ currTab = Interfaces
    /\ view = [t \in Tabs |-> << >>]
    /\ lastGood = << >>

(***************************************************************************)
(* The engine's interface traffic and administration.                      *)
(***************************************************************************)
EngineRx(i) ==
    /\ ifState[i] = "present"
    /\ SumTraffic(ifCounters, NumIf) < MaxTraffic
    /\ ifCounters' = [ifCounters EXCEPT ![i].rx = @ + 1]
    /\ op' = Op("EngineRx", TRUE, i)
    /\ UNCHANGED <<ifState, appVars, errVars, exceptPoll>>

EngineTx(i) ==
    /\ ifState[i] = "present"
    /\ SumTraffic(ifCounters, NumIf) < MaxTraffic
    /\ ifCounters' = [ifCounters EXCEPT ![i].tx = @ + 1]
    /\ op' = Op("EngineTx", TRUE, i)
    /\ UNCHANGED <<ifState, appVars, errVars, exceptPoll>>

EngineAddInterface(i) ==
    /\ ifState[i] = "absent"
    /\ ifState' = [ifState EXCEPT ![i] = "present"]
    /\ op' = Op("EngineAddInterface", TRUE, i)
    /\ UNCHANGED <<ifCounters, appVars, errVars, exceptPoll>>

EngineDeleteInterface(i) ==
    /\ ifState[i] = "present"
    /\ ifState' = [ifState EXCEPT ![i] = "deleted"]
    /\ op' = Op("EngineDeleteInterface", TRUE, i)
    /\ UNCHANGED <<ifCounters, appVars, errVars, exceptPoll>>

\* gui.ViewAtTab(tab).Update(rows): the view shows the rows it is given.
Update(old, rows) == rows

(***************************************************************************)
(* A tick of the polling loop on the Interfaces tab, and the clear task of *)
(* that tab; each runs from vppLock.Lock() to vppLock.Unlock().            *)
(***************************************************************************)
TickInterfaces ==
    \E fetchOk \in BOOLEAN :
        LET ifaces == GetInterfacesResult(fetchOk, ifState, ifCounters)
            s == sortBy[Interfaces]
            sorted == sortInterfaceStats(ifaces, s.field, s.asc)
        IN  /\ currTab = Interfaces
            /\ view' = [view EXCEPT ![Interfaces] =
                           Update(@, formatInterfaces(sorted, IfCache))]
            /\ IfCache' = sorted
            /\ lastGood' = IF fetchOk THEN sorted ELSE lastGood
            /\ op' = Op("Tick", fetchOk, Interfaces)
            /\ UNCHANGED <<sortBy, currTab, engIfVars, errVars, exceptPoll>>

\* The IfCache after the clear task of the Interfaces tab.
ClearedIfCache_Kept(cache) == cache

ClearedIfCache(cache) == << >>

ClearInterfaces ==
    \E cliOk \in BOOLEAN :
        /\ ifCounters' = IF cliOk
                         THEN [i \in 1..NumIf |-> [rx |-> 0, tx |-> 0]]
                         ELSE ifCounters
        /\ IfCache' = ClearedIfCache(IfCache)
        /\ op' = Op("Clear", cliOk, Interfaces)
        /\ UNCHANGED <<ifState, sortBy, currTab, view, lastGood, errVars,
                       exceptPoll>>

NextIf ==
    \/ \E i \in 1..NumIf : EngineRx(i) \/ EngineTx(i)
    \/ \E i \in 1..NumIf : EngineAddInterface(i) \/ EngineDeleteInterface(i)
    \/ TickInterfaces
    \/ ClearInterfaces

(***************************************************************************)
(* The other four categories: what the engine reports, and the aggregator  *)
(* and formatter functions of each.  Text is a sequence of characters.     *)
(***************************************************************************)
\* xtui.EmptyCell
EmptyCell == "EmptyCell"

\* GetRuntimeInfo: per worker thread, the runtime items of its nodes.
RuntimeThreads ==
    << << [Name |-> "ip4-input", Index |-> 1, Clocks |-> 12, Vectors |-> 6,
           Calls |-> 3, Suspends |-> 0, VectorsPerCall |-> "2.00"] >>,
       << [Name |-> "ip4-lookup", Index |-> 2, Clocks |-> 9, Vectors |-> 4,
           Calls |-> 4, Suspends |-> 1, VectorsPerCall |-> "1.00"] >> >>

RECURSIVE FlattenThreads(_, _)
FlattenThreads(threads, result) ==
    IF threads = << >> THEN result
    ELSE FlattenThreads(Tail(threads), result \o Head(threads))

\* VPP.GetNodes: [ok, list]; an error when the fetch fails or no thread is
\* reported.
GetNodesResult(fetchOk, threads) ==
    IF ~fetchOk \/ Len(threads) = 0
    THEN [ok |-> FALSE, list |-> << >>]
    ELSE [ok |-> TRUE, list |-> FlattenThreads(threads, << >>)]

\* App.formatNodes: the seven cells of a node (names hold no space).
formatNodes(nodes) ==
    [i \in 1..Len(nodes) |->
        << nodes[i].Name, ToString(nodes[i].Index), ToString(nodes[i].Clocks),
           ToString(nodes[i].Vectors), ToString(nodes[i].Calls),
           ToString(nodes[i].Suspends), nodes[i].VectorsPerCall >>]

\* App.formatErrors: one row per error, and one blank row when there is none.
formatErrors(errors) ==
    IF Len(errors) = 0 THEN << << "", "", "" >> >>
    ELSE [i \in 1..Len(errors) |->
             << ToString(errors[i].Value), errors[i].Node, errors[i].Name >>]

\* strings.Trim(r, " \n")
TrimCutset == {" ", "\n"}

RECURSIVE TrimLeft(_)
TrimLeft(r) ==
    IF r # << >> /\ Head(r) \in TrimCutset THEN TrimLeft(Tail(r)) ELSE r

RECURSIVE TrimRight(_)
TrimRight(r) ==
    IF r # << >> /\ r[Len(r)] \in TrimCutset
    THEN TrimRight(SubSeq(r, 1, Len(r) - 1))
    ELSE r

Trim(r) == TrimRight(TrimLeft(r))

\* strings.Split(mem, "\n"): the pieces between the newlines.
RECURSIVE SplitLines(_, _, _)
SplitLines(text, line, result) ==
    IF text = << >> THEN Append(result, line)
    ELSE IF Head(text) = "\n"
         THEN SplitLines(Tail(text), << >>, Append(result, line))
         ELSE SplitLines(Tail(text), Append(line, Head(text)), result)

\* VPP.Memory: the loop over the split report.
RECURSIVE MemoryLoop(_, _)
MemoryLoop(pieces, rows) ==
    IF pieces = << >> THEN rows
    ELSE IF Head(pieces) = << >>
         THEN MemoryLoop(Tail(pieces), rows)
         ELSE MemoryLoop(Tail(pieces), Append(rows, Trim(Head(pieces))))

MemoryResult(fetchOk, report) ==
    IF fetchOk
    THEN [ok |-> TRUE, list |-> MemoryLoop(SplitLines(report, << >>, << >>), << >>)]
    ELSE [ok |-> FALSE, list |-> << >>]

\* The engine's "show memory main-heap verbose" report: seven lines.
MemReport ==
    << "T", "0", "\n", " ", "a", "\n", " ", "b", "\n", " ", "c", "\n",
       " ", "d", "\n", " ", "e", "\n", " ", "f", "\n" >>

\* App.formatMemstats: rowsPerEntry source lines make RowsPerMemory rows, of
\* which the last is never assigned.
rowsPerEntry == 7

RowsPerMemory == 8

formatMemstats(memstats) ==
    LET count == Len(memstats) \div rowsPerEntry
    IN  [k \in 1..(RowsPerMemory * count) |->
            LET i == (k - 1) \div RowsPerMemory
                r == (k - 1) % RowsPerMemory
            IN  CASE r = 0 -> << memstats[rowsPerEntry * i + 1],
                                 memstats[rowsPerEntry * i + 2] >>
                  [] r \in 1..5 -> << EmptyCell, memstats[rowsPerEntry * i + r + 2] >>
                  [] r = 6 -> << EmptyCell, EmptyCell >>
                  [] OTHER -> << >>]

\* The reply of ShowThreads.
ThreadData ==
    << [ID |-> 0, Name |-> "vpp_main", Type |-> "", PID |-> 100,
        CPUID |-> 0, Core |-> 0, CPUSocket |-> 0] >>

\* VPP.Threads
ThreadsResult(fetchOk) ==
    IF fetchOk THEN [ok |-> TRUE, list |-> ThreadData]
    ELSE [ok |-> FALSE, list |-> << >>]

\* App.formatThreads: the seven cells of a thread.
formatThreads(threads) ==
    [i \in 1..Len(threads) |->
        << ToString(threads[i].ID), threads[i].Name, threads[i].Type,
           ToString(threads[i].PID), ToString(threads[i].CPUID),
           ToString(threads[i].Core), ToString(threads[i].CPUSocket) >>]

(***************************************************************************)
(* The ticks of the other tabs, the other clear tasks and the tab switch.  *)
(* The sort of the Nodes and Errors tabs leaves the list as fetched while  *)
(* the tab has no sort column.                                             *)
(***************************************************************************)
TickNodes ==
    \E fetchOk \in BOOLEAN :
        LET nodes == GetNodesResult(fetchOk, RuntimeThreads)
        IN  /\ currTab = Nodes
            /\ view' = [view EXCEPT ![Nodes] =
                           Update(@, formatNodes(nodes.list))]
            /\ op' = Op("Tick", nodes.ok, Nodes)
            /\ UNCHANGED <<IfCache, sortBy, currTab, lastGood, engIfVars,
                           errVars, exceptPoll>>

TickErrors ==
    \E fetchOk \in BOOLEAN :
        LET errors == GetErrorsResult(fetchOk, errCounters, lastErrorCounters)
        IN  /\ currTab = Errors
            /\ view' = [view EXCEPT ![Errors] =
                           Update(@, formatErrors(errors.list))]
            /\ op' = Op("Tick", errors.ok, Errors)
            /\ UNCHANGED <<IfCache, sortBy, currTab, lastGood, engIfVars,
                           errVars, exceptPoll>>

TickMemory ==
    \E fetchOk \in BOOLEAN :
        LET memstats == MemoryResult(fetchOk, MemReport)
        IN  /\ currTab = Memory
            /\ view' = [view EXCEPT ![Memory] =
                           Update(@, formatMemstats(memstats.list))]
            /\ op' = Op("Tick", memstats.ok, Memory)
            /\ UNCHANGED <<IfCache, sortBy, currTab, lastGood, engIfVars,
                           errVars, exceptPoll>>

TickThreads ==
    \E fetchOk \in BOOLEAN :
        LET threads == ThreadsResult(fetchOk)
        IN  /\ currTab = Threads
            /\ view' = [view EXCEPT ![Threads] =
                           Update(@, formatThreads(threads.list))]
            /\ op' = Op("Tick", threads.ok, Threads)
            /\ UNCHANGED <<IfCache, sortBy, currTab, lastGood, engIfVars,
                           errVars, exceptPoll>>

\* The clear task of the Nodes tab: ClearRuntimeCounters.
ClearNodes ==
    \E cliOk \in BOOLEAN :
        /\ op' = Op("Clear", cliOk, Nodes)
        /\ UNCHANGED <<appVars, engIfVars, errVars, exceptPoll>>

\* The clear task of the Errors tab: ClearErrorCounters.
ClearErrors ==
    \E fetchOk \in BOOLEAN, cliOk \in BOOLEAN, zeroes \in BOOLEAN :
        /\ lastErrorCounters' =
               updateLastErrors(fetchOk, errCounters, lastErrorCounters)
        /\ errCounters' = IF cliOk /\ zeroes
                          THEN [i \in 1..NumErr |-> 0]
                          ELSE errCounters
        /\ op' = Op("Clear", cliOk, Errors)
        /\ UNCHANGED <<errResult, sinceClear, appVars, engIfVars, exceptPoll>>

\* The tab-switch handler.
TabSwitch(t) ==
    /\ currTab' = t
    /\ op' = Op("TabSwitch", TRUE, t)
    /\ UNCHANGED <<IfCache, sortBy, view, lastGood, engIfVars, errVars,
                   exceptPoll>>

NextPoll ==
    \/ TickInterfaces
    \/ TickNodes
    \/ TickErrors
    \/ TickMemory
    \/ TickThreads
    \/ ClearInterfaces
    \/ ClearNodes
    \/ ClearErrors
    \/ \E t \in Tabs : TabSwitch(t)

\* The Interfaces tab with the engine's traffic, and the clear tasks of all
\* the tabs that have one.
NextClear ==
    \/ NextIf
    \/ ClearNodes
    \/ ClearErrors

(***************************************************************************)
(* App.Run, goroutine by goroutine: the ticking goroutine, the clear and   *)
(* sort tasks the callbacks launch, and the display's event loop, which    *)
(* runs one callback at a time and dispatches nothing after the exit       *)
(* callback.  The steps here are the lock, WaitGroup, context, engine-call *)
(* and display steps; what a tick computes is in the ticks above.          *)
(***************************************************************************)
\* The largest number of clear tasks, and of sort tasks, alive at a time.
MaxClear == 2
MaxSort == 1

\* The largest number of abandoned fetch goroutines alive at a time.
MaxAbandoned == 1

\* The tabs with a clear command and a sort column.
ActionTabs == {Interfaces, Nodes, Errors}

\* The payloads of the events: the tabs switched to, the tabs cleared, the
\* tabs sorted and the column they are sorted by.
SwitchTabs == {Interfaces, Errors, Memory}
ClearTabs == {Interfaces, Errors}
SortTabs == {Interfaces}
SortColumn == 7

\* The value of a local variable that is out of scope.
NoTab == Interfaces
NoReq == [CurrTab |-> NoTab, CurrRow |-> SortColumn]

\* Nothing read, fetched or pushed yet in the tick.
NoLog == [reads |-> << >>, fetched |-> << >>, pushed |-> << >>]

\* The switch of the tick: the aggregator call of each case.
FetchOf_Interfaces(tab) == "GetInterfaces"

FetchOf(tab) ==
    CASE tab = Interfaces -> "GetInterfaces"
      [] tab = Nodes -> "GetNodes"
      [] tab = Errors -> "GetErrors"
      [] tab = Memory -> "Memory"
      [] tab = Threads -> "Threads"

\* The switch of the tick: the tab whose view each case updates.
ViewOf(tab) == tab

\* The switch of a clear task: the clear command of each case.
ClearCmdOf(tab) ==
    CASE tab = Interfaces -> "ClearIfaceCounters"
      [] tab = Nodes -> "ClearRuntimeCounters"
      [] tab = Errors -> "ClearErrorCounters"
      [] OTHER -> "none"

\* What each aggregator function does with s.lastErrorCounters: GetErrors
\* reads it, ClearErrorCounters writes it through updateLastErrors, and no
\* other function called after the connect names it.
BaselineAccess(fn) ==
    CASE fn = "GetErrors" -> "read"
      [] fn = "ClearErrorCounters" -> "write"
      [] OTHER -> "none"

\* currTab(): the deferred app.tabLock.Unlock() runs when it returns.
TabLockAfterRead_Held == "tick"

TabLockAfterRead == "free"

\* A new goroutine takes the first free slot.
FirstIdle(pc, k) == pc[k] = "idle" /\ \A j \in 1..(k - 1) : pc[j] # "idle"

ClearId(k) == "clear" \o ToString(k)
SortId(k) == "sort" \o ToString(k)

RunInit ==
    /\ tickPc = "select"
    /\ tickTab = NoTab
    /\ tickLog = NoLog
    /\ clearPc = [k \in 1..MaxClear |-> "idle"]
    /\ clearTab = [k \in 1..MaxClear |-> NoTab]
    /\ sortPc = [k \in 1..MaxSort |-> "idle"]
    /\ sortReq = [k \in 1..MaxSort |-> NoReq]
    /\ uiPc = "idle"
    /\ uiArg = NoTab
    /\ vppLock = "free"
    /\ tabLock = "free"
    /\ sortLock = "free"
    /\ wg = 1
    /\ cancelled = FALSE
    /\ guiLive = TRUE
    /\ connLive = TRUE
    /\ abandoned = 0

\* sync.Mutex.Lock returns when the mutex is free.
LockReturns_NoMutex(holder) == TRUE

LockReturns(holder) == holder = "free"

\* The display runs its callbacks from one event loop, one at a time, and the
\* exit callback is the last one it runs.
EventLoopIdle == uiPc = "idle"

\* ---- the ticking goroutine ----
\* case <-updateTicker
TickerFires ==
    /\ tickPc = "select"
    /\ tickPc' = "lock"
    /\ UNCHANGED <<op, tickTab, tickLog, clearPc, clearTab, sortPc, sortReq, uiPc, uiArg,
                   syncVars, sortBy, currTab, exceptRun>>

\* <-ctx.Done() can be received once app.cancel() has closed the channel.
CtxDoneReady_Never == FALSE

CtxDoneReady == cancelled

\* case <-ctx.Done(): app.wg.Done(); return
TickCtxDone ==
    /\ tickPc = "select"
    /\ CtxDoneReady
    /\ tickPc' = "exited"
    /\ wg' = wg - 1
    /\ UNCHANGED <<op, tickTab, tickLog, clearPc, clearTab, sortPc, sortReq, uiPc, uiArg,
                   vppLock, tabLock, sortLock, cancelled, guiLive, connLive, abandoned,
                   sortBy, currTab, exceptRun>>

\* app.vppLock.Lock()
TickLock ==
    /\ tickPc = "lock"
    /\ LockReturns(vppLock)
    /\ vppLock' = "tick"
    /\ tickPc' = "tabLock"
    /\ UNCHANGED <<op, tickTab, tickLog, clearPc, clearTab, sortPc, sortReq, uiPc, uiArg,
                   tabLock, sortLock, wg, cancelled, guiLive, connLive, abandoned,
                   sortBy, currTab, exceptRun>>

\* currTab(): app.tabLock.Lock()
TickTabLock ==
    /\ tickPc = "tabLock"
    /\ LockReturns(tabLock)
    /\ tabLock' = "tick"
    /\ tickPc' = "tabRead"
    /\ UNCHANGED <<op, tickTab, tickLog, clearPc, clearTab, sortPc, sortReq, uiPc, uiArg,
                   vppLock, sortLock, wg, cancelled, guiLive, connLive, abandoned,
                   sortBy, currTab, exceptRun>>

\* currTab(): return app.currTab, with the deferred Unlock; the fetch of the
\* tab's category is then issued to the engine.
TickTabRead ==
    /\ tickPc = "tabRead"
    /\ tickTab' = currTab
    /\ tickLog' = [tickLog EXCEPT
                       !.reads = Append(@, [tab |-> currTab, holder |-> tabLock]),
                       !.fetched = Append(@, FetchOf(currTab))]
    /\ tabLock' = TabLockAfterRead
    /\ tickPc' = "fetch"
    /\ UNCHANGED <<op, clearPc, clearTab, sortPc, sortReq, uiPc, uiArg,
                   vppLock, sortLock, wg, cancelled, guiLive, connLive, abandoned,
                   sortBy, currTab, exceptRun>>

\* The fetch returns, with or without an error (which is logged).  A
\* GetInterfaces that returns on the first error leaves its other fetch
\* goroutine running.
TickFetched ==
    \E leaves \in {0, 1} :
        /\ tickPc = "fetch"
        /\ leaves = 1 => tickTab = Interfaces /\ abandoned < MaxAbandoned
        /\ abandoned' = abandoned + leaves
        /\ tickPc' = IF tickTab \in ActionTabs THEN "sortLock" ELSE "push"
        /\ UNCHANGED <<op, tickTab, tickLog, clearPc, clearTab, sortPc, sortReq, uiPc,
                       uiArg, vppLock, tabLock, sortLock, wg, cancelled,
                       guiLive, connLive, sortBy, currTab, exceptRun>>

\* The abandoned fetch goroutine gets its reply, sends it and ends.
AbandonedFetchDone ==
    /\ abandoned > 0
    /\ abandoned' = abandoned - 1
    /\ UNCHANGED <<op, taskVars, vppLock, tabLock, sortLock, wg, cancelled,
                   guiLive, connLive, sortBy, currTab, exceptRun>>

\* app.sortLock.Lock()
TickSortLock ==
    /\ tickPc = "sortLock"
    /\ LockReturns(sortLock)
    /\ sortLock' = "tick"
    /\ tickPc' = "sortRead"
    /\ UNCHANGED <<op, tickTab, tickLog, clearPc, clearTab, sortPc, sortReq, uiPc, uiArg,
                   vppLock, tabLock, wg, cancelled, guiLive, connLive, abandoned,
                   sortBy, currTab, exceptRun>>

\* s := app.sortBy[tab]; app.sortLock.Unlock()
TickSortRead ==
    /\ tickPc = "sortRead"
    /\ sortLock' = "free"
    /\ tickPc' = "push"
    /\ UNCHANGED <<op, tickTab, tickLog, clearPc, clearTab, sortPc, sortReq, uiPc, uiArg,
                   vppLock, tabLock, wg, cancelled, guiLive, connLive, abandoned,
                   sortBy, currTab, exceptRun>>

\* sort, format, app.gui.ViewAtTab(tab).Update(rows)
TickPush ==
    /\ tickPc = "push"
    /\ tickPc' = "unlock"
    /\ tickLog' = [tickLog EXCEPT !.pushed = Append(@, ViewOf(tickTab))]
    /\ UNCHANGED <<op, tickTab, clearPc, clearTab, sortPc, sortReq, uiPc, uiArg,
                   syncVars, sortBy, currTab, exceptRun>>

\* app.vppLock.Unlock()
TickUnlock ==
    /\ tickPc = "unlock"
    /\ vppLock' = "free"
    /\ tickPc' = "select"
    /\ tickTab' = NoTab
    /\ tickLog' = NoLog
    /\ UNCHANGED <<op, clearPc, clearTab, sortPc, sortReq, uiPc, uiArg,
                   tabLock, sortLock, wg, cancelled, guiLive, connLive, abandoned,
                   sortBy, currTab, exceptRun>>

\* ---- the clear tasks ----
\* The OnClear callback: app.wg.Add(1); go func() {...}()
OnClear(k, tab) ==
    /\ EventLoopIdle
    /\ FirstIdle(clearPc, k)
    /\ wg' = wg + 1
    /\ clearPc' = [clearPc EXCEPT ![k] = "lock"]
    /\ clearTab' = [clearTab EXCEPT ![k] = tab]
    /\ UNCHANGED <<op, tickPc, tickTab, tickLog, sortPc, sortReq, uiPc, uiArg,
                   vppLock, tabLock, sortLock, cancelled, guiLive, connLive, abandoned,
                   sortBy, currTab, exceptRun>>

\* app.vppLock.Lock(); the clear command of the tab is then issued.
ClearLock(k) ==
    /\ clearPc[k] = "lock"
    /\ LockReturns(vppLock)
    /\ vppLock' = ClearId(k)
    /\ clearPc' = [clearPc EXCEPT ![k] = "cmd"]
    /\ UNCHANGED <<op, tickPc, tickTab, tickLog, clearTab, sortPc, sortReq, uiPc, uiArg,
                   tabLock, sortLock, wg, cancelled, guiLive, connLive, abandoned,
                   sortBy, currTab, exceptRun>>

\* The clear command returns, with or without an error (which is logged).
ClearCmd(k) ==
    /\ clearPc[k] = "cmd"
    /\ clearPc' = [clearPc EXCEPT ![k] = "wgDone"]
    /\ UNCHANGED <<op, tickPc, tickTab, tickLog, clearTab, sortPc, sortReq, uiPc,
                   uiArg, syncVars, sortBy, currTab, exceptRun>>

\* defer app.wg.Done(): the later defer runs first.
ClearWgDone(k) ==
    /\ clearPc[k] = "wgDone"
    /\ wg' = wg - 1
    /\ clearPc' = [clearPc EXCEPT ![k] = "unlock"]
    /\ UNCHANGED <<op, tickPc, tickTab, tickLog, clearTab, sortPc, sortReq, uiPc, uiArg,
                   vppLock, tabLock, sortLock, cancelled, guiLive, connLive, abandoned,
                   sortBy, currTab, exceptRun>>

\* defer app.vppLock.Unlock()
ClearUnlock(k) ==
    /\ clearPc[k] = "unlock"
    /\ vppLock' = "free"
    /\ clearPc' = [clearPc EXCEPT ![k] = "idle"]
    /\ clearTab' = [clearTab EXCEPT ![k] = NoTab]
    /\ UNCHANGED <<op, tickPc, tickTab, tickLog, sortPc, sortReq, uiPc, uiArg,
                   tabLock, sortLock, wg, cancelled, guiLive, connLive, abandoned,
                   sortBy, currTab, exceptRun>>

\* ---- the sort tasks ----
\* The OnSort callback: app.wg.Add(1); go func() {...}()
OnSort(k, tab) ==
    /\ EventLoopIdle
    /\ FirstIdle(sortPc, k)
    /\ wg' = wg + 1
    /\ sortPc' = [sortPc EXCEPT ![k] = "lock"]
    /\ sortReq' = [sortReq EXCEPT ![k] = [CurrTab |-> tab, CurrRow |-> SortColumn]]
    /\ UNCHANGED <<op, tickPc, tickTab, tickLog, clearPc, clearTab, uiPc, uiArg,
                   vppLock, tabLock, sortLock, cancelled, guiLive, connLive, abandoned,
                   sortBy, currTab, exceptRun>>

\* app.sortLock.Lock()
SortLock(k) ==
    /\ sortPc[k] = "lock"
    /\ LockReturns(sortLock)
    /\ sortLock' = SortId(k)
    /\ sortPc' = [sortPc EXCEPT ![k] = "write"]
    /\ UNCHANGED <<op, tickPc, tickTab, tickLog, clearPc, clearTab, sortReq, uiPc, uiArg,
                   vppLock, tabLock, wg, cancelled, guiLive, connLive, abandoned,
                   sortBy, currTab, exceptRun>>

\* The switch on payload.CurrTab: the field is set and asc is flipped.
SortSpecAfter_SetOnly(spec, payload) ==
    IF payload.CurrTab \in ActionTabs
    THEN [spec EXCEPT ![payload.CurrTab] =
             [field |-> payload.CurrRow, asc |-> spec[payload.CurrTab].asc]]
    ELSE spec

SortSpecAfter(spec, payload) ==
    IF payload.CurrTab \in ActionTabs
    THEN [spec EXCEPT ![payload.CurrTab] =
             [field |-> payload.CurrRow, asc |-> ~spec[payload.CurrTab].asc]]
    ELSE spec

\* The switch, then the deferred app.sortLock.Unlock().
SortWrite(k) ==
    /\ sortPc[k] = "write"
    /\ sortBy' = SortSpecAfter(sortBy, sortReq[k])
    /\ sortLock' = "free"
    /\ sortPc' = [sortPc EXCEPT ![k] = "wgDone"]
    /\ UNCHANGED <<op, tickPc, tickTab, tickLog, clearPc, clearTab, sortReq, uiPc, uiArg,
                   vppLock, tabLock, wg, cancelled, guiLive, connLive, abandoned,
                   currTab, exceptRun>>

\* defer app.wg.Done(): the first defer runs last.
SortWgDone(k) ==
    /\ sortPc[k] = "wgDone"
    /\ wg' = wg - 1
    /\ sortPc' = [sortPc EXCEPT ![k] = "idle"]
    /\ sortReq' = [sortReq EXCEPT ![k] = NoReq]
    /\ UNCHANGED <<op, tickPc, tickTab, tickLog, clearPc, clearTab, uiPc, uiArg,
                   vppLock, tabLock, sortLock, cancelled, guiLive, connLive, abandoned,
                   sortBy, currTab, exceptRun>>

\* ---- the tab-switch callback ----
\* app.tabLock.Lock() is reached.
OnTabSwitch(t) ==
    /\ EventLoopIdle
    /\ uiPc' = "tabLock"
    /\ uiArg' = t
    /\ UNCHANGED <<op, tickPc, tickTab, tickLog, clearPc, clearTab, sortPc, sortReq,
                   syncVars, sortBy, currTab, exceptRun>>

UiTabLock ==
    /\ uiPc = "tabLock"
    /\ LockReturns(tabLock)
    /\ tabLock' = "ui"
    /\ uiPc' = "tabWrite"
    /\ UNCHANGED <<op, tickPc, tickTab, tickLog, clearPc, clearTab, sortPc, sortReq, uiArg,
                   vppLock, sortLock, wg, cancelled, guiLive, connLive, abandoned,
                   sortBy, currTab, exceptRun>>

\* app.currTab = event.Payload.(int), with the deferred Unlock.
UiTabWrite ==
    /\ uiPc = "tabWrite"
    /\ currTab' = uiArg
    /\ tabLock' = "free"
    /\ uiPc' = "idle"
    /\ uiArg' = NoTab
    /\ UNCHANGED <<op, tickPc, tickTab, tickLog, clearPc, clearTab, sortPc, sortReq,
                   vppLock, sortLock, wg, cancelled, guiLive, connLive, abandoned,
                   sortBy, exceptRun>>

\* ---- the exit callback ----
\* app.cancel()
OnExit ==
    /\ EventLoopIdle
    /\ cancelled' = TRUE
    /\ uiPc' = "wait"
    /\ UNCHANGED <<op, tickPc, tickTab, tickLog, clearPc, clearTab, sortPc, sortReq, uiArg,
                   vppLock, tabLock, sortLock, wg, guiLive, connLive, abandoned,
                   sortBy, currTab, exceptRun>>

\* app.wg.Wait()
ExitWait ==
    /\ uiPc = "wait"
    /\ WaitReturns(wg)
    /\ uiPc' = "destroy"
    /\ UNCHANGED <<op, tickPc, tickTab, tickLog, clearPc, clearTab, sortPc, sortReq, uiArg,
                   syncVars, sortBy, currTab, exceptRun>>

\* app.gui.Destroy()
ExitDestroy ==
    /\ uiPc = "destroy"
    /\ guiLive' = FALSE
    /\ uiPc' = "disconnect"
    /\ UNCHANGED <<op, tickPc, tickTab, tickLog, clearPc, clearTab, sortPc, sortReq, uiArg,
                   vppLock, tabLock, sortLock, wg, cancelled, connLive, abandoned,
                   sortBy, currTab, exceptRun>>

\* app.vpp.Disconnect()
ExitDisconnect ==
    /\ uiPc = "disconnect"
    /\ connLive' = FALSE
    /\ uiPc' = "exited"
    /\ UNCHANGED <<op, tickPc, tickTab, tickLog, clearPc, clearTab, sortPc, sortReq, uiArg,
                   vppLock, tabLock, sortLock, wg, cancelled, guiLive, abandoned,
                   sortBy, currTab, exceptRun>>

NextRun ==
    \/ TickerFires
    \/ TickCtxDone
    \/ TickLock
    \/ TickTabLock
    \/ TickTabRead
    \/ TickFetched
    \/ AbandonedFetchDone
    \/ TickSortLock
    \/ TickSortRead
    \/ TickPush
    \/ TickUnlock
    \/ \E k \in 1..MaxClear, tab \in ClearTabs : OnClear(k, tab)
    \/ \E k \in 1..MaxClear :
           ClearLock(k) \/ ClearCmd(k) \/ ClearWgDone(k) \/ ClearUnlock(k)
    \/ \E k \in 1..MaxSort, tab \in SortTabs : OnSort(k, tab)
    \/ \E k \in 1..MaxSort : SortLock(k) \/ SortWrite(k) \/ SortWgDone(k)
    \/ \E t \in SwitchTabs : OnTabSwitch(t)
    \/ UiTabLock
    \/ UiTabWrite
    \/ OnExit
    \/ ExitWait
    \/ ExitDestroy
    \/ ExitDisconnect

(***************************************************************************)
(* The sort events, each with its whole sort task (lock, switch, unlock),  *)
(* between the ticks of the Interfaces tab.                                *)
(***************************************************************************)
\* The payloads of the sort events: the tabs and the columns.
SortEventTabs == {Interfaces, Errors, Memory}
SortColumns == {SortColumn, SortColumn + 1}

HistInit ==
    sortBefore = [t \in Tabs |-> [col |-> NoColumn, before |-> sortBy[t]]]

SortEvent(tab, col) ==
    /\ sortBy' = SortSpecAfter(sortBy, [CurrTab |-> tab, CurrRow |-> col])
    /\ sortBefore' = [sortBefore EXCEPT ![tab] = [col |-> col, before |-> sortBy[tab]]]
    /\ op' = Op("Sort", TRUE, tab)
    /\ UNCHANGED <<IfCache, currTab, view, lastGood, engIfVars, errVars,
                   giVars, taskVars, syncVars, connVars, bootVars, callVars>>

NextSort ==
    \/ \E tab \in SortEventTabs, col \in SortColumns : SortEvent(tab, col)
    \/ TickInterfaces
    \/ \E i \in 1..NumIf : EngineAddInterface(i)

(***************************************************************************)
(* App.Init and the two connect paths, VPP.Connect and VPP.ConnectRemote.  *)
(***************************************************************************)
\* The keys of govppmux.Versions (the cases of the switch on ver).
Versions == {"19.04", "19.08", "20.01_324", "20.01_379"}

\* for i := 0; i < 3; i++
ConnectAttempts == 3

\* s.channels = make([]api.Channel, 3)
NumChannels == 3

\* The runs of the program against one engine.
MaxRuns == 2

exceptConn == <<errVars, giVars, engIfVars, appVars, taskVars, syncVars, histVars,
    callVars>>

ConnInit ==
    /\ cPc = "idle"
    /\ cMode = "direct"
    /\ cRet = "none"
    /\ attempts = 0
    /\ sleeps = 0
    /\ client = FALSE
    /\ statsOpen = FALSE
    /\ openChans = 0
    /\ compat = {}
    /\ remaining = Versions
    /\ registered = {}
    /\ selected = "none"
    /\ prevSelected = "none"
    /\ runNo = 0
    /\ callLog = {}
    /\ guiInit = FALSE
    /\ endpoint = "down"
    /\ bPc = "idle"
    /\ probes = 0

\* A delegated call on a channel of the remote client, for a version, and
\* whether that version's messages were registered when it was made.
Delegated(call, ver) == [call |-> call, ver |-> ver, reg |-> ver \in registered]

\* log.Fatalln in the endpoint goroutine ends the process.
Alive == endpoint # "fatal"

\* App.Init is called by a new run of the program against the engine;
\* `c` is the set of versions the engine is compatible with.
InitBegin(mode, c) ==
    /\ Alive
    /\ cPc \in {"idle", "done"}
    /\ runNo < MaxRuns
    /\ runNo > 0 => c = compat
    /\ runNo' = runNo + 1
    /\ compat' = c
    /\ prevSelected' = selected
    /\ cMode' = mode
    /\ cPc' = IF mode = "remote" THEN "dial" ELSE "stats"
    /\ cRet' = "none"
    /\ attempts' = 0
    /\ sleeps' = 0
    /\ client' = FALSE
    /\ statsOpen' = FALSE
    /\ openChans' = 0
    /\ remaining' = Versions
    /\ registered' = {}
    /\ selected' = "none"
    /\ callLog' = {}
    /\ guiInit' = FALSE
    /\ op' = Op("Init", TRUE, runNo + 1)

InitCall(mode, c) ==
    /\ bPc = "idle"
    /\ InitBegin(mode, c)
    /\ UNCHANGED <<bootVars, exceptConn>>

\* The loop goes on while i < 3.
DialAgain_Forever(i) == TRUE

DialAgain(i) == i < ConnectAttempts

\* client, err = proxy.Connect(raddr); if err == nil { break }
CR_Dial ==
    /\ Alive
    /\ cPc = "dial"
    /\ attempts' = attempts + 1
    /\ client' = (endpoint = "up")
    /\ cPc' = IF endpoint = "up" THEN "stats" ELSE "sleep"
    /\ op' = Op("Dial", endpoint = "up", attempts + 1)
    /\ UNCHANGED <<cMode, cRet, sleeps, statsOpen, openChans, compat,
                   remaining, registered, selected, prevSelected, runNo,
                   callLog, guiInit, bootVars, exceptConn>>

\* time.Sleep(1 * time.Second); i++; after the loop, if err != nil, return.
CR_Sleep ==
    /\ Alive
    /\ cPc = "sleep"
    /\ sleeps' = sleeps + 1
    /\ cPc' = IF DialAgain(attempts) THEN "dial" ELSE "done"
    /\ cRet' = IF DialAgain(attempts) THEN cRet ELSE "err:connect"
    /\ op' = Op("Sleep", TRUE, sleeps + 1)
    /\ UNCHANGED <<cMode, attempts, client, statsOpen, openChans, compat,
                   remaining, registered, selected, prevSelected, runNo,
                   callLog, guiInit, bootVars, exceptConn>>

\* client.NewStatsClient() / core.ConnectStats(s.client)
NewStats ==
    \E ok \in BOOLEAN :
        /\ Alive
        /\ cPc = "stats"
        /\ statsOpen' = ok
        /\ cPc' = IF ~ok THEN "done"
                  ELSE IF cMode = "direct" THEN "govpp" ELSE "apichan"
        /\ cRet' = IF ok THEN cRet ELSE "err:stats"
        /\ op' = Op("NewStats", ok, 0)
        /\ UNCHANGED <<cMode, attempts, sleeps, client, openChans, compat,
                       remaining, registered, selected, prevSelected, runNo,
                       callLog, guiInit, bootVars, exceptConn>>

\* s.vppConn, err = govpp.Connect("")
GovppConnect ==
    \E ok \in BOOLEAN :
        /\ Alive
        /\ cPc = "govpp"
        /\ client' = ok
        /\ cPc' = IF ok THEN "apichan" ELSE "done"
        /\ cRet' = IF ok THEN cRet ELSE "err:govpp"
        /\ op' = Op("GovppConnect", ok, 0)
        /\ UNCHANGED <<cMode, attempts, sleeps, statsOpen, openChans, compat,
                       remaining, registered, selected, prevSelected, runNo,
                       callLog, guiInit, bootVars, exceptConn>>

\* s.apiChan, then s.channels[i] for each i: a channel is opened, or the
\* connect returns the error.
NewChannel ==
    \E ok \in BOOLEAN :
        /\ Alive
        /\ cPc = "apichan"
        /\ openChans' = IF ok THEN openChans + 1 ELSE openChans
        /\ cPc' = IF ~ok THEN "done"
                  ELSE IF openChans' = 1 + NumChannels THEN "bind" ELSE "apichan"
        /\ cRet' = IF ok THEN cRet ELSE "err:channel"
        /\ op' = Op("NewChannel", ok, openChans)
        /\ UNCHANGED <<cMode, attempts, sleeps, client, statsOpen, compat,
                       remaining, registered, selected, prevSelected, runNo,
                       callLog, guiInit, bootVars, exceptConn>>

\* The three Compatible...Handler calls: the library returns the handlers
\* or ends the process.
BindHandlers ==
    \E returns \in BOOLEAN :
        /\ Alive
        /\ cPc = "bind"
        /\ cPc' = IF ~returns THEN "aborted"
                  ELSE IF cMode = "remote" THEN "loop" ELSE "version"
        /\ op' = Op("BindHandlers", returns, 0)
        /\ UNCHANGED <<cMode, cRet, attempts, sleeps, client, statsOpen,
                       openChans, compat, remaining, registered, selected,
                       prevSelected, runNo, callLog, guiInit, bootVars,
                       exceptConn>>

\* One iteration of for ver, h := range govppmux.Versions, a map: the
\* versions come in an order the runtime chooses.  An incompatible version
\* is skipped; a compatible one has its messages registered and ends the
\* loop.
CheckVersion(ver) ==
    /\ Alive
    /\ cPc = "loop"
    /\ ver \in remaining
    /\ callLog' = callLog \cup {Delegated("CheckCompatiblity", ver)}
    /\ remaining' = remaining \ {ver}
    /\ IF ver \in compat
       THEN /\ registered' = registered \cup {ver}
            /\ selected' = ver
            /\ cPc' = "version"
       ELSE /\ UNCHANGED <<registered, selected>>
            /\ cPc' = IF remaining' = {} THEN "version" ELSE "loop"
    /\ op' = Op("CheckVersion", ver \in compat, 0)
    /\ UNCHANGED <<cMode, cRet, attempts, sleeps, client, statsOpen,
                   openChans, compat, prevSelected, runNo, guiInit, bootVars,
                   exceptConn>>

\* s.version, err = s.govppHandler.GetVersionInfo()
VersionQuery ==
    \E ok \in BOOLEAN :
        /\ Alive
        /\ cPc = "version"
        /\ callLog' = IF cMode = "remote"
                      THEN callLog \cup {Delegated("GetVersionInfo", selected)}
                      ELSE callLog
        /\ cPc' = IF ok THEN "gui" ELSE "done"
        /\ cRet' = IF ok THEN cRet ELSE "err:version"
        /\ op' = Op("VersionQuery", ok, 0)
        /\ UNCHANGED <<cMode, attempts, sleeps, client, statsOpen, openChans,
                       compat, remaining, registered, selected, prevSelected,
                       runNo, guiInit, bootVars, exceptConn>>

\* App.Init after the connect: app.gui.Init(), Version, SetVersion.
GuiInit ==
    \E ok \in BOOLEAN :
        /\ Alive
        /\ cPc = "gui"
        /\ guiInit' = TRUE
        /\ cPc' = "done"
        /\ cRet' = IF ok THEN "ok" ELSE "err:gui"
        /\ op' = Op("GuiInit", ok, 0)
        /\ UNCHANGED <<cMode, attempts, sleeps, client, statsOpen, openChans,
                       compat, remaining, registered, selected, prevSelected,
                       runNo, callLog, bootVars, exceptConn>>

\* The delegation endpoint at the address comes up or goes away.
EndpointChange ==
    /\ bPc = "idle"
    /\ endpoint' = IF endpoint = "up" THEN "down" ELSE "up"
    /\ op' = Op("Endpoint", endpoint # "up", 0)
    /\ UNCHANGED <<bPc, probes, connVars, exceptConn>>

\* The steps of App.Init with an address: ConnectRemote and what follows.
RemoteSteps ==
    \/ CR_Dial
    \/ CR_Sleep
    \/ NewStats
    \/ NewChannel
    \/ BindHandlers
    \/ \E ver \in Versions : CheckVersion(ver)
    \/ VersionQuery
    \/ GuiInit

NextConnect ==
    \/ \E mode \in {"direct", "remote"}, c \in SUBSET Versions : InitCall(mode, c)
    \/ EndpointChange
    \/ GovppConnect
    \/ RemoteSteps

(***************************************************************************)
(* nodeCmd.RunE from the probe of the address on: the probe loop, the      *)
(* endpoint goroutine and startClient, which makes the application and     *)
(* calls its Init with the address.                                        *)
(***************************************************************************)
\* RunE reaches the probe loop; an endpoint is at the address or is not.
BootBegin(e) ==
    /\ bPc = "idle"
    /\ cPc = "idle"
    /\ runNo = 0
    /\ endpoint' = e
    /\ bPc' = "probe"
    /\ op' = Op("RunE", e = "up", 0)
    /\ UNCHANGED <<probes, connVars, exceptConn>>

\* if _, err = proxy.Connect(raddr); err == nil { break }
BootProbe ==
    /\ bPc = "probe"
    /\ probes' = probes + 1
    /\ bPc' = IF endpoint = "up" THEN "startClient" ELSE "probeSleep"
    /\ op' = Op("Probe", endpoint = "up", probes + 1)
    /\ UNCHANGED <<endpoint, connVars, exceptConn>>

\* time.Sleep(1 * time.Second); after the loop, if err != nil, the spawn.
BootProbeSleep ==
    /\ bPc = "probeSleep"
    /\ bPc' = IF DialAgain(probes) THEN "probe" ELSE "spawn"
    /\ op' = Op("ProbeSleep", TRUE, probes)
    /\ UNCHANGED <<endpoint, probes, connVars, exceptConn>>

\* go func() { proxy.NewServer() ... }()
BootSpawn ==
    /\ bPc = "spawn"
    /\ endpoint' = "starting"
    /\ bPc' = "startClient"
    /\ op' = Op("Spawn", TRUE, 0)
    /\ UNCHANGED <<probes, connVars, exceptConn>>

\* The goroutine reaches p.ListenAndServe(raddr).
EndpointListen ==
    /\ endpoint = "starting"
    /\ endpoint' = "up"
    /\ op' = Op("ListenAndServe", TRUE, 0)
    /\ UNCHANGED <<bPc, probes, connVars, exceptConn>>

\* NewServer, ConnectStats or ConnectBinapi fails: log.Fatalln.
EndpointFatal ==
    /\ endpoint = "starting"
    /\ endpoint' = "fatal"
    /\ op' = Op("ListenAndServe", FALSE, 0)
    /\ UNCHANGED <<bPc, probes, connVars, exceptConn>>

\* return startClient("", raddr, "remote.log")
StartClient(c) ==
    /\ bPc = "startClient"
    /\ bPc' = "client"
    /\ InitBegin("remote", c)
    /\ UNCHANGED <<endpoint, probes, exceptConn>>

NextBoot ==
    \/ \E e \in {"down", "up"} : BootBegin(e)
    \/ BootProbe
    \/ BootProbeSleep
    \/ BootSpawn
    \/ EndpointListen
    \/ EndpointFatal
    \/ \E c \in SUBSET Versions : StartClient(c)
    \/ RemoteSteps

(***************************************************************************)
(* Single calls on given replies: the join of VPP.GetInterfaces on any     *)
(* pair of replies, the two fetches being independent of each other.       *)
(***************************************************************************)
\* The largest interface index in a reply.
MaxJoinIf == 3

exceptCall == <<op, errVars, giVars, engIfVars, appVars, taskVars, syncVars,
                histVars, connVars, bootVars>>

\* No call is made.
CallInit ==
    /\ callPc = "idle"
    /\ callIn = << >>
    /\ callOut = << >>

\* One entry of api.InterfaceStats.Interfaces, for interface index i.
JoinStatsEntry(i) ==
    [InterfaceIndex |-> i, InterfaceName |-> "if" \o ToString(i),
     RxPackets |-> i, RxBytes |-> i * PacketSize,
     TxPackets |-> 0, TxBytes |-> 0]

\* The replies of GetInterfaceStats: the entries of any interfaces, in any
\* order, an index at most once.
JoinStatsReplies ==
    LET idx == 1..MaxJoinIf
        orders == UNION {[1..n -> idx] : n \in 0..MaxJoinIf}
    IN  {[p \in 1..Len(o) |-> JoinStatsEntry(o[p])] :
            o \in {q \in orders : \A a, b \in 1..Len(q) : a # b => q[a] # q[b]}}

\* The replies of DumpInterfaces: index -> details, for any interfaces.
JoinDetailsReplies ==
    UNION {[d -> {IfDetails[k] : k \in 1..NumIf}] : d \in SUBSET (1..MaxJoinIf)}

InitJoin ==
    /\ op = Op("Connect", TRUE, 0)
    /\ ErrInit /\ GiIdle /\ EngineIfInit /\ AppInit /\ RunInit /\ HistInit /\ ConnInit
    /\ callPc = "ready"
    /\ callIn \in [stats : JoinStatsReplies, details : JoinDetailsReplies]
    /\ callOut = << >>

\* GetInterfaces after both fetches succeeded: the loop and the return.
JoinCall ==
    /\ callPc = "ready"
    /\ callOut' = JoinInterfaces(callIn.stats, callIn.details, << >>)
    /\ callPc' = "returned"
    /\ UNCHANGED <<callIn, exceptCall>>

NextJoin == JoinCall

(***************************************************************************)
(* VPP.Memory on any report text.                                          *)
(***************************************************************************)
\* The longest report text, in characters.
MaxReportLen == 5

\* The characters of a report: a letter, a space, a newline.
ReportChars == {"a", " ", "\n"}

ReportTexts == UNION {[1..n -> ReportChars] : n \in 0..MaxReportLen}

InitMem ==
    /\ op = Op("Connect", TRUE, 0)
    /\ ErrInit /\ GiIdle /\ EngineIfInit /\ AppInit /\ RunInit /\ HistInit /\ ConnInit
    /\ callPc = "ready"
    /\ callIn \in ReportTexts
    /\ callOut = << >>

\* Memory() when the command succeeded.
MemoryCall ==
    /\ callPc = "ready"
    /\ callOut' = MemoryResult(TRUE, callIn).list
    /\ callPc' = "returned"
    /\ UNCHANGED <<callIn, exceptCall>>

NextMem == MemoryCall

(***************************************************************************)
(* The specifications.                                                     *)
(***************************************************************************)
Init ==
    /\ op = Op("Connect", TRUE, 0)
    /\ ErrInit
    /\ GiIdle
    /\ EngineIfInit
    /\ AppInit
    /\ RunInit
    /\ HistInit
    /\ ConnInit
    /\ CallInit

SpecErr == Init /\ [][NextErr]_vars

SpecGI == Init /\ [][NextGI]_vars

\* The scheduling of the goroutines of GetInterfaces: a goroutine that can
\* take its next step takes it, and the engine answers each fetch.  A new
\* call is under no obligation to happen.
GiFairness ==
    /\ \A f \in Fetches : WF_vars(FetchReply(f) \/ FetchSend(f) \/ FetchDone(f))
    /\ WF_vars(CloserClose)
    /\ WF_vars(GiReceive \/ GiJoin)

SpecGILive == Init /\ [][NextGI]_vars /\ GiFairness

SpecIf == Init /\ [][NextIf]_vars

SpecClear == Init /\ [][NextClear]_vars

SpecRun == Init /\ [][NextRun]_vars

SpecSort == Init /\ [][NextSort]_vars

SpecJoin == InitJoin /\ [][NextJoin]_vars

SpecMem == InitMem /\ [][NextMem]_vars

\* The scheduling of App.Run.  A goroutine that can take its next step takes
\* it: an engine call returns, a deferred call runs, a Lock on a mutex that
\* stays free returns, a Wait on a WaitGroup at zero returns.  The events of
\* the display and the ticker are under no obligation to happen.  The select
\* of the ticking goroutine chooses at random among its ready cases, so a
\* case that is ready at every select is chosen at some select; sync.Mutex
\* hands the mutex to a goroutine that has waited long for it, so a Lock on
\* a mutex that is free again and again returns.  A goroutine has one next
\* step at a time, so the condition is stated once for each goroutine.
TickStep ==
    \/ TickLock \/ TickTabLock \/ TickTabRead \/ TickFetched
    \/ TickSortLock \/ TickSortRead \/ TickPush \/ TickUnlock

ClearStep(k) == ClearLock(k) \/ ClearCmd(k) \/ ClearWgDone(k) \/ ClearUnlock(k)

SortStep(k) == SortLock(k) \/ SortWrite(k) \/ SortWgDone(k)

UiStep == UiTabLock \/ UiTabWrite \/ ExitWait \/ ExitDestroy \/ ExitDisconnect

RunFairness ==
    /\ SF_vars(TickCtxDone)
    /\ SF_vars(TickStep)
    /\ \A k \in 1..MaxClear : SF_vars(ClearStep(k))
    /\ \A k \in 1..MaxSort : SF_vars(SortStep(k))
    /\ SF_vars(UiStep)

\* The steps of App.Run with one payload for each event: a switch to the
\* Memory tab (whose tick takes no sort lock; the initial tab's tick does), a
\* clear of the Interfaces tab and a sort of the Interfaces tab.
NextExit ==
    \/ TickerFires
    \/ TickCtxDone
    \/ TickStep
    \/ AbandonedFetchDone
    \/ \E k \in 1..MaxClear : OnClear(k, Interfaces) \/ ClearStep(k)
    \/ \E k \in 1..MaxSort : OnSort(k, Interfaces) \/ SortStep(k)
    \/ OnTabSwitch(Memory)
    \/ OnExit
    \/ UiStep

SpecExit == Init /\ [][NextExit]_vars /\ RunFairness

SpecConnect == Init /\ [][NextConnect]_vars

SpecBoot == Init /\ [][NextBoot]_vars

\* The engine has counted errors before the application connects.
InitPoll ==
    /\ op = Op("Connect", TRUE, 0)
    /\ errCounters = [i \in 1..NumErr |-> IF i < NumErr THEN MaxErr ELSE 0]
    /\ lastErrorCounters = EmptyMap
    /\ errResult = NoResult
    /\ sinceClear = FALSE
    /\ GiIdle
    /\ EngineIfInit
    /\ AppInit
    /\ RunInit
    /\ HistInit
    /\ ConnInit
    /\ CallInit

SpecPoll == InitPoll /\ [][NextPoll]_vars

(***************************************************************************)
(* Claims about the error counters.                                        *)
(***************************************************************************)
\* What the specification asks of GetErrors: one entry per raw counter whose
\* difference to the baseline is not 0, in raw order, carrying the difference
\* (a uint64 difference).
ErrorDeltas(values, last) ==
    LET raw == RawCounters(values)
        delta(c) == (c.Value - MapGet(last, ErrKey(c))) % UintMod
        kept == {i \in 1..NumErr : delta(raw[i]) # 0}
        nth(k) == CHOOSE i \in kept : Cardinality({j \in kept : j < i}) = k - 1
    IN  [k \in 1..Cardinality(kept) |->
            [Node |-> raw[nth(k)].Node, Name |-> raw[nth(k)].Name,
             Value |-> delta(raw[nth(k)])]]

\* The scenario of the specification: baseline {(node1,err-a):5} and raw
\* [(node1,err-a):5, (node1,err-b):2] give exactly [(node1,err-b):2].
ErrScenario ==
    GetErrorsLoop(<< [Node |-> "node1", Name |-> "err-a", Value |-> 5],
                     [Node |-> "node1", Name |-> "err-b", Value |-> 2] >>,
                  MapPut(EmptyMap, "node1err-a", 5), << >>)
      = << [Node |-> "node1", Name |-> "err-b", Value |-> 2] >>

\* C7: a successful GetErrors returns exactly the raw counters whose uint64
\* difference raw - baseline[key] (baseline 0 for an absent key) is not 0, in
\* raw order and with that difference as value, and leaves the baseline map
\* as it was; the scenario of the specification comes out as stated.
C7_GetErrorsDeltas ==
    [][ /\ ErrScenario
        /\ (op'.name = "GetErrors" /\ op'.ok) =>
              /\ errResult'.list = ErrorDeltas(errCounters, lastErrorCounters)
              /\ lastErrorCounters' = lastErrorCounters ]_vars

\* C7 witness: GetErrors has returned with a baseline entry equal to its raw
\* counter (omitted), another counter above its baseline (kept), and a third
\* counter at 0 with no baseline (omitted).
C7_Witness ==
    /\ op.name = "GetErrors" /\ op.ok
    /\ MapGet(lastErrorCounters, "node1err-a") = 2
    /\ errCounters = <<2, 1, 0>>
    /\ errResult.list = << [Node |-> "node1", Name |-> "err-b", Value |-> 1] >>

\* C8 (as claimed): the first successful GetErrors after ClearErrorCounters,
\* with no engine increment in between, returns the empty list.
C8_EmptyAfterClear ==
    [][ (op'.name = "GetErrors" /\ op'.ok /\ sinceClear)
            => errResult'.list = << >> ]_vars

\* C9 (as claimed): after a ClearErrorCounters whose snapshot fetch succeeded,
\* the baseline map is exactly the raw snapshot taken by that call: every key
\* reads the snapshot's value (0 for a counter that is 0 or absent).
C9_BaselineIsSnapshot ==
    [][ (op'.name = "ClearErrorCounters" /\ op'.ok) =>
            /\ \A i \in 1..NumErr :
                   MapGet(lastErrorCounters', ErrKey(NodeCounterIds[i]))
                       = errCounters[i]
            /\ DOMAIN lastErrorCounters'
                   \subseteq {ErrKey(NodeCounterIds[i]) : i \in 1..NumErr} ]_vars

(***************************************************************************)
(* Claims about GetInterfaces.                                             *)
(***************************************************************************)
\* C5 (as claimed): when GetInterfaces has returned an error, neither of its
\* two fetches is still in flight.
C5_ErrorAfterBothFetches ==
    (giPc = "returned" /\ giRet.err) =>
        \A f \in Fetches : fetchPc[f] # "fetching"

\* C6: GetInterfaces returns a list only when both fetches have replied
\* without error, and returns an error with a nil list otherwise: once it
\* has returned, the result is an error with no list exactly when a fetch
\* that has replied failed, and a returned list means both replied nil.
C6_ErrorIffAFetchFailed ==
    giPc = "returned" =>
        /\ giRet.err => /\ giRet.list = "nil"
                        /\ \E f \in Fetches : fetchErr[f] = "err"
        /\ ~giRet.err => /\ giRet.list = "joined"
                         /\ \A f \in Fetches : fetchErr[f] = "nil"
        /\ (\A f \in Fetches : fetchErr[f] # "pending")
             => (giRet.err <=> \E f \in Fetches : fetchErr[f] = "err")

\* C6 witness: the details fetch succeeded, the counter fetch failed, both
\* have replied, and GetInterfaces has returned an error and no list.
C6_Witness ==
    /\ giPc = "returned"
    /\ fetchErr["DumpInterfaces"] = "nil"
    /\ fetchErr["GetInterfaceStats"] = "err"
    /\ giRet = [err |-> TRUE, list |-> "nil"]

(***************************************************************************)
(* Claims about the interface sample cache and the rates.                  *)
(***************************************************************************)
\* C4 (as claimed): after a tick on the Interfaces tab whose GetInterfaces
\* call succeeded, IfCache is the sample that call returned, and a tick whose
\* GetInterfaces call failed leaves IfCache unchanged.
C4_CacheOnlyAfterSuccess ==
    [][ (op'.name = "Tick" /\ op'.arg = Interfaces) =>
            IF op'.ok THEN IfCache' = lastGood' ELSE IfCache' = IfCache ]_vars

\* An interface sample entry with the given name and counters.
IfaceSample(name, rxBytes, txBytes, rxPackets, txPackets) ==
    [InterfaceIndex |-> 1, InterfaceName |-> name,
     RxPackets |-> rxPackets, RxBytes |-> rxBytes,
     TxPackets |-> txPackets, TxBytes |-> txBytes,
     IPAddrs |-> << >>, State |-> "up", MTU |-> << 0, 0, 0, 0 >>]

\* The scenario of the specification: rx-bytes 1000 then 1500 for eth0 give
\* 500, and eth0 absent from the previous sample gives 0.
IfScenario ==
    /\ formatInterfaces(<< IfaceSample("eth0", 1500, 0, 15, 0) >>,
                        << IfaceSample("eth0", 1000, 0, 10, 0) >>)[1].RxBps
          = "500"
    /\ formatInterfaces(<< IfaceSample("eth0", 1500, 0, 15, 0) >>,
                        << IfaceSample("eth1", 1000, 0, 10, 0) >>)[1].RxBps
          = "0"

\* The four rate cells the specification asks for: the integer differences
\* to the same-named entry of the previous sample, 0 without such an entry.
ExpectedRates(cur, cache) ==
    LET prevs == {j \in 1..Len(cache) :
                     cache[j].InterfaceName = cur.InterfaceName}
    IN  IF prevs = {} THEN << "0", "0", "0", "0" >>
        ELSE LET p == cache[CHOOSE j \in prevs : TRUE]
             IN  << ToString(cur.RxBytes - p.RxBytes),
                    ToString(cur.TxBytes - p.TxBytes),
                    ToString(cur.RxPackets - p.RxPackets),
                    ToString(cur.TxPackets - p.TxPackets) >>

\* C10: on every tick of the Interfaces tab the view gets one entry per
\* interface of the current sample, whose rx/tx byte and packet rates are
\* the current counters minus those of the same-named interface of the
\* previous sample (IfCache before the tick), and 0 when the previous sample
\* has no interface of that name; the scenario of the specification comes
\* out as stated.
C10_RatesAreDifferences ==
    [][ /\ IfScenario
        /\ (op'.name = "Tick" /\ op'.arg = Interfaces) =>
              /\ Len(view'[Interfaces]) = Len(IfCache')
              /\ \A k \in 1..Len(IfCache') :
                    LET row == view'[Interfaces][k]
                    IN  /\ row.Name = IfCache'[k].InterfaceName
                        /\ << row.RxBps, row.TxBps, row.RxPps, row.TxPps >>
                              = ExpectedRates(IfCache'[k], IfCache) ]_vars

\* C10 witness: a successful tick has shown eth0 with a receive rate of one
\* packet and PacketSize bytes, and eth1, which has counted a packet but was
\* not in the previous sample, with rate 0.
C10_Witness ==
    /\ op = Op("Tick", TRUE, Interfaces)
    /\ Len(view[Interfaces]) = 2
    /\ view[Interfaces][1].Name = "eth0"
    /\ view[Interfaces][1].RxBps = ToString(PacketSize)
    /\ view[Interfaces][1].RxPps = "1"
    /\ view[Interfaces][2].Name = "eth1"
    /\ view[Interfaces][2].RxPackets = "1"
    /\ view[Interfaces][2].RxPps = "0"
    /\ view[Interfaces][2].RxBps = "0"

(***************************************************************************)
(* Claims about the ticks of all tabs.                                     *)
(***************************************************************************)
\* C3 (as claimed): a tick whose fetch failed pushes nothing: the rows of
\* every view, that of the current tab included, stay as they were.
C3_FailedTickKeepsRows ==
    [][ (op'.name = "Tick" /\ ~op'.ok) => view' = view ]_vars

(***************************************************************************)
(* App.Run: the poll mutex and the exit.                                   *)
(***************************************************************************)
TickInSection ==
    tickPc \in {"tabLock", "tabRead", "fetch", "sortLock", "sortRead", "push", "unlock"}

ClearInSection(k) == clearPc[k] \in {"cmd", "wgDone", "unlock"}

InSection ==
    {ClearId(k) : k \in {j \in 1..MaxClear : ClearInSection(j)}}
        \cup (IF TickInSection THEN {"tick"} ELSE {})

\* C1: at most one of the tick and the clear tasks is between its
\* vppLock.Lock() and its vppLock.Unlock(): never a tick and a clear task,
\* never two clear tasks; the fetch, sort, format and push of a tick and the
\* engine command of a clear task happen only there.
C1_PollMutexExclusive ==
    /\ Cardinality(InSection) <= 1
    /\ \A id \in InSection : vppLock = id

\* A clear task is in its engine command while the tick and the other clear
\* task wait for the mutex.
C1_Witness ==
    /\ tickPc = "lock"
    /\ \E j, k \in 1..MaxClear : clearPc[j] = "cmd" /\ clearPc[k] = "lock"

TasksFinished ==
    /\ tickPc = "exited"
    /\ \A k \in 1..MaxClear : clearPc[k] \in {"idle", "unlock"}
    /\ \A k \in 1..MaxSort : sortPc[k] = "idle"

C11_TwoSortsRestore ==
    [][ (op'.name = "Sort" /\ op'.arg \in ActionTabs
            /\ sortBefore[op'.arg].col = sortBefore'[op'.arg].col)
        => sortBy'[op'.arg] = sortBefore[op'.arg].before ]_vars

\* C11 (amended): a sort event on a sortable tab flips the tab's asc flag,
\* sets its field to the event's column and leaves the other tabs alone; the
\* second of two sort events on the same tab and column restores the asc
\* flag, and restores the whole setting exactly when the field was already
\* that column before the first of the two.
C11_TwoSortsRestoreFlag ==
    [][ (op'.name = "Sort" /\ op'.arg \in ActionTabs) =>
          LET t == op'.arg
              col == sortBefore'[t].col
              first == sortBefore[t]
          IN  /\ sortBy'[t].asc = ~sortBy[t].asc
              /\ sortBy'[t].field = col
              /\ \A u \in Tabs \ {t} : sortBy'[u] = sortBy[u]
              /\ first.col = col =>
                    /\ sortBy'[t].asc = first.before.asc
                    /\ (sortBy'[t] = first.before) <=> (first.before.field = col) ]_vars

\* A third sort event on the same column of the Interfaces tab has restored
\* the setting of before the second, with rows shown by a tick.
C11_Witness ==
    /\ op.name = "Sort"
    /\ op.arg = Interfaces
    /\ sortBefore[Interfaces].before.field = sortBy[Interfaces].field
    /\ sortBy[Interfaces].asc = FALSE
    /\ sortBy[Interfaces].field = SortColumn
    /\ Len(view[Interfaces]) = NumIf

(***************************************************************************)
(* The connect paths and the bootstrap.                                    *)
(***************************************************************************)
\* C12 (as claimed): the versions are tried in one fixed order, so two runs
\* against the same engine that each select a version select the same one.
C12_SameVersionEachRun ==
    (selected # "none" /\ prevSelected # "none") => selected = prevSelected

\* C13 (as claimed): when ConnectRemote's loop has found every version
\* incompatible, the connect returns an unsupported-version error, with no
\* messages registered and no version query made.
C13_UnsupportedVersionError ==
    (cMode = "remote" /\ compat = {} /\ remaining = {} /\ cPc = "done") =>
        /\ cRet = "err:unsupported"
        /\ registered = {}
        /\ \A r \in callLog : r.call # "GetVersionInfo"

\* C14: ConnectRemote calls proxy.Connect at most 3 times; every call but
\* the first comes after a failed call and a one-second sleep; no call is
\* made once one has succeeded; and the connection error is returned after 3
\* failed calls, with no client, stats client or channel created.
C14_AtMostThreeAttempts ==
    /\ attempts <= 3
    /\ cPc = "dial" => sleeps = attempts /\ ~client
    /\ (cMode = "remote" /\ client) => cPc \notin {"dial", "sleep"} /\ sleeps = attempts - 1
    /\ cRet = "err:connect" =>
          /\ attempts = 3
          /\ cPc = "done"
          /\ ~client
          /\ ~statsOpen
          /\ openChans = 0

\* All three attempts have failed and the error is returned.
C14_Witness ==
    /\ cMode = "remote"
    /\ cRet = "err:connect"
    /\ attempts = 3
    /\ sleeps = 3

Spawned == bPc \in {"startClient", "client"} /\ probes = ConnectAttempts

\* C15 (as claimed): after the spawn of the local endpoint the client's
\* connect never ends without having reached it; and after a successful
\* probe no endpoint is spawned.
C15_BootstrapEndsConnected ==
    /\ (Spawned /\ cPc = "done") => cRet # "err:connect"
    /\ (bPc \in {"startClient", "client"} /\ ~Spawned) => endpoint = "up"

\* C16 (as claimed): every delegated call made for the selected version was
\* made with that version's messages registered.
C16_RegisteredBeforeDelegatedCall ==
    \A r \in callLog : (selected # "none" /\ r.ver = selected) => r.reg

\* C17 (as claimed): when the version query fails, the connect returns the
\* error with no channel, stats connection or client left open, and App.Init
\* has not initialised the display.
C17_NoPartialConnection ==
    (cPc = "done" /\ cRet = "err:version") =>
        /\ openChans = 0
        /\ ~statsOpen
        /\ ~client
        /\ ~guiInit

(***************************************************************************)
(* The tick and the tab.                                                   *)
(***************************************************************************)
\* The aggregator call that belongs to each tab.
CategoryFetch ==
    [t \in Tabs |->
        CASE t = 0 -> "GetInterfaces"
          [] t = 1 -> "GetNodes"
          [] t = 2 -> "GetErrors"
          [] t = 3 -> "Memory"
          [] t = 4 -> "Threads"]

TickAfterRead == tickPc \in {"fetch", "sortLock", "sortRead", "push", "unlock"}

\* C18: a tick reads currTab once, holding tabLock; from then to the end of
\* the tick it has issued exactly one fetch, the one of the tab it read, and
\* at its end it has updated exactly one view, the one of that tab, also
\* when a tab-switch callback has changed currTab in the meantime; before
\* the read it has fetched and pushed nothing.
C18_OneTabPerTick ==
    /\ TickAfterRead =>
          /\ tickLog.reads = << [tab |-> tickTab, holder |-> "tick"] >>
          /\ tickLog.fetched = << CategoryFetch[tickTab] >>
          /\ tickLog.pushed = IF tickPc = "unlock" THEN << tickTab >> ELSE << >>
    /\ ~TickAfterRead => tickLog = NoLog

\* The tick has pushed the rows of the tab it read, Interfaces, after a
\* tab-switch callback made Memory the current tab during the tick.
C18_Witness ==
    /\ tickPc = "unlock"
    /\ tickTab = Interfaces
    /\ currTab = Memory
    /\ tickLog.pushed = << Interfaces >>

(***************************************************************************)
(* The sort tasks and the tab-switch callback against the poll mutex.      *)
(***************************************************************************)
\* C19: a sort task and the tab-switch callback never hold vppLock, and
\* whatever the state of vppLock each of their steps can be taken, or waits
\* for sortLock or tabLock while its holder is in the one step between its
\* Lock and its Unlock, a step that waits for nothing; so they complete
\* while a tick or a clear task holds vppLock.
C19_NeverWaitForPollMutex ==
    /\ vppLock \in {"free", "tick"} \cup {ClearId(k) : k \in 1..MaxClear}
    /\ sortLock = "tick" => tickPc = "sortRead" /\ ENABLED TickSortRead
    /\ tabLock = "tick" => tickPc = "tabRead" /\ ENABLED TickTabRead
    /\ tabLock = "ui" => uiPc = "tabWrite" /\ ENABLED UiTabWrite
    /\ (uiPc = "tabLock" /\ tabLock = "free") => ENABLED UiTabLock
    /\ \A k \in 1..MaxSort :
          /\ sortLock = SortId(k) => sortPc[k] = "write" /\ ENABLED SortWrite(k)
          /\ (sortPc[k] = "lock" /\ sortLock = "free") => ENABLED SortLock(k)
          /\ sortPc[k] = "wgDone" => ENABLED SortWgDone(k)

\* The tick is in its engine fetch under vppLock and a clear task waits for
\* vppLock, while a sort task holds sortLock and the tab-switch callback
\* holds tabLock.
C19_Witness ==
    /\ tickPc = "fetch"
    /\ vppLock = "tick"
    /\ \E k \in 1..MaxClear : clearPc[k] = "lock"
    /\ \E k \in 1..MaxSort : sortPc[k] = "write"
    /\ uiPc = "tabWrite"

(***************************************************************************)
(* The error-counter baseline under the poll mutex.                        *)
(***************************************************************************)
\* The tasks that are inside an aggregator call that reads or writes the
\* baseline map.
BaselineReaders ==
    IF tickPc = "fetch" /\ BaselineAccess(FetchOf(tickTab)) = "read"
    THEN {"tick"} ELSE {}

BaselineWriters ==
    {ClearId(k) : k \in {j \in 1..MaxClear :
        clearPc[j] = "cmd" /\ BaselineAccess(ClearCmdOf(clearTab[j])) = "write"}}

\* C20: while the application runs, the baseline map is read only inside
\* the tick's GetErrors and written only inside a clear task's
\* ClearErrorCounters; the task inside such a call holds vppLock, so at most
\* one task is inside one and a read never overlaps a write.
C20_BaselineUnderPollMutex ==
    /\ \A a \in BaselineReaders \cup BaselineWriters : vppLock = a
    /\ Cardinality(BaselineReaders \cup BaselineWriters) <= 1
    /\ tickPc = "fetch" =>
          (BaselineAccess(FetchOf(tickTab)) # "none" <=> tickTab = Errors)
    /\ \A k \in 1..MaxClear : clearPc[k] = "cmd" =>
          (BaselineAccess(ClearCmdOf(clearTab[k])) # "none" <=> clearTab[k] = Errors)

\* The tick is inside GetErrors while a clear task of the Errors tab waits
\* for vppLock.
C20_Witness ==
    /\ BaselineReaders = {"tick"}
    /\ \E k \in 1..MaxClear : clearPc[k] = "lock" /\ clearTab[k] = Errors

(***************************************************************************)
(* The subtraction in GetErrors.                                           *)
(***************************************************************************)
\* C21 (as claimed): whenever GetErrors subtracts, the baseline of every raw
\* counter is at most the counter's raw value, so the uint64 difference is
\* the integer difference and no delta wraps around.
C21_BaselineAtMostRaw ==
    [][ (op'.name = "GetErrors" /\ op'.ok) =>
            \A i \in 1..NumErr :
                LET base == MapGet(lastErrorCounters, ErrKey(NodeCounterIds[i]))
                IN  /\ base <= errCounters[i]
                    /\ USub(errCounters[i], base) = errCounters[i] - base ]_vars

(***************************************************************************)
(* Termination after the exit event.                                       *)
(***************************************************************************)
\* Every goroutine of App.Run has ended and the connection is released.
AllEnded ==
    /\ tickPc = "exited"
    /\ \A k \in 1..MaxClear : clearPc[k] = "idle"
    /\ \A k \in 1..MaxSort : sortPc[k] = "idle"
    /\ uiPc = "exited"
    /\ ~connLive

\* A clear or sort task ends only by taking its own last step.
NoTaskCancelled ==
    /\ \A k \in 1..MaxClear :
          (clearPc[k] # "idle" /\ clearPc'[k] = "idle") => clearPc[k] = "unlock"
    /\ \A k \in 1..MaxSort :
          (sortPc[k] # "idle" /\ sortPc'[k] = "idle") => sortPc[k] = "wgDone"

\* C22: after the exit event, with every engine call returning, the ticking
\* loop stops, every clear and sort task that was launched runs through its
\* last step (none is cut short), the join returns and the connection is
\* released.
C22_ExitTerminates ==
    /\ [][NoTaskCancelled]_vars
    /\ cancelled ~> AllEnded

\* The exit callback waits at the join while the tick is inside a fetch, a
\* clear task waits for vppLock and a sort task has not yet written.
C22_Witness ==
    /\ uiPc = "wait" /\ cancelled /\ wg = 3
    /\ tickPc = "fetch"
    /\ \E k \in 1..MaxClear : clearPc[k] = "lock"
    /\ \E k \in 1..MaxSort : sortPc[k] = "lock"

(***************************************************************************)
(* The join of GetInterfaces.                                              *)
(***************************************************************************)
\* The positions of the counter-side reply whose index has a detail entry.
JoinKept(stats, details) ==
    {p \in 1..Len(stats) : stats[p].InterfaceIndex \in DOMAIN details}

\* The n-th smallest element of a set of numbers.
NthOf(set, n) == CHOOSE p \in set : Cardinality({q \in set : q < p}) = n - 1

\* C23: a successful GetInterfaces returns one entry for each counter-side
\* entry whose index has a detail-side entry, in counter-side order, with
\* the counters of that entry and the addresses, MTU and state ("up" when
\* enabled, "down" otherwise) of the detail entry; the other counter-side
\* entries are dropped, and a detail-side index without counters is in no
\* entry.
C23_JoinByIndex ==
    callPc = "returned" =>
        LET stats == callIn.stats
            details == callIn.details
            kept == JoinKept(stats, details)
        IN  /\ Len(callOut) = Cardinality(kept)
            /\ \A n \in 1..Len(callOut) :
                  LET c == stats[NthOf(kept, n)]
                      d == details[c.InterfaceIndex]
                      e == callOut[n]
                  IN  /\ e.InterfaceIndex = c.InterfaceIndex
                      /\ e.InterfaceName = c.InterfaceName
                      /\ <<e.RxPackets, e.RxBytes, e.TxPackets, e.TxBytes>>
                            = <<c.RxPackets, c.RxBytes, c.TxPackets, c.TxBytes>>
                      /\ e.IPAddrs = d.IpAddresses
                      /\ e.MTU = d.MTU
                      /\ e.State = (IF d.Enabled THEN "up" ELSE "down")
            /\ \A n \in 1..Len(callOut) :
                  /\ callOut[n].InterfaceIndex \in DOMAIN details
                  /\ \E p \in 1..Len(stats) :
                        stats[p].InterfaceIndex = callOut[n].InterfaceIndex

\* The counter side lists interfaces 3, 1, 2; the detail side has 2 (enabled)
\* and 3 (disabled) only: the call returned 3 as down, then 2 as up, and
\* dropped 1.
C23_Witness ==
    /\ callPc = "returned"
    /\ Len(callIn.stats) = 3
    /\ callIn.stats[1].InterfaceIndex = 3 /\ callIn.stats[2].InterfaceIndex = 1
    /\ DOMAIN callIn.details = {2, 3}
    /\ callIn.details[2].Enabled /\ ~callIn.details[3].Enabled
    /\ Len(callOut) = 2
    /\ callOut[1].InterfaceIndex = 3 /\ callOut[1].State = "down"
    /\ callOut[2].InterfaceIndex = 2 /\ callOut[2].State = "up"

(***************************************************************************)
(* The lines of Memory().                                                  *)
(***************************************************************************)
\* A line without its leading and trailing spaces.
RECURSIVE StripSpaces(_)
StripSpaces(line) ==
    IF line = << >> THEN line
    ELSE IF Head(line) = " " THEN StripSpaces(Tail(line))
    ELSE IF line[Len(line)] = " " THEN StripSpaces(SubSeq(line, 1, Len(line) - 1))
    ELSE line

NonEmptyLine(line) == line # << >>

\* C24 (as claimed): Memory() returns the lines of the report in order, each
\* without its leading and trailing spaces, and no line of the result is
\* empty, whatever the report text.
C24_TrimmedNonEmptyLines ==
    callPc = "returned" =>
        LET lines == SplitLines(callIn, << >>, << >>)
            stripped == [p \in 1..Len(lines) |-> StripSpaces(lines[p])]
        IN  /\ callOut = SelectSeq(stripped, NonEmptyLine)
            /\ \A n \in 1..Len(callOut) : callOut[n] # << >>

(***************************************************************************)
(* No deadlock among the locks of App.Run.                                 *)
(***************************************************************************)
\* The goroutines that have not ended, and those of them that wait in a
\* Lock() for a mutex another goroutine holds.
LiveTasks ==
    (IF tickPc # "exited" THEN {"tick"} ELSE {})
      \cup {ClearId(k) : k \in {j \in 1..MaxClear : clearPc[j] # "idle"}}
      \cup {SortId(k) : k \in {j \in 1..MaxSort : sortPc[j] # "idle"}}
      \cup (IF uiPc \notin {"idle", "exited"} THEN {"ui"} ELSE {})

WaitingForLock ==
    (IF \/ tickPc = "lock" /\ vppLock # "free"
        \/ tickPc = "tabLock" /\ tabLock # "free"
        \/ tickPc = "sortLock" /\ sortLock # "free"
     THEN {"tick"} ELSE {})
      \cup {ClearId(k) : k \in {j \in 1..MaxClear :
                clearPc[j] = "lock" /\ vppLock # "free"}}
      \cup {SortId(k) : k \in {j \in 1..MaxSort :
                sortPc[j] = "lock" /\ sortLock # "free"}}
      \cup (IF uiPc = "tabLock" /\ tabLock # "free" THEN {"ui"} ELSE {})

\* The step a goroutine is at: the one step between the Lock and the Unlock
\* of the tab lock or of the sort lock.
AtShortStep(holder) ==
    \/ holder = "tick" /\ tickPc \in {"tabRead", "sortRead"}
    \/ holder = "ui" /\ uiPc = "tabWrite"
    \/ \E k \in 1..MaxSort : holder = SortId(k) /\ sortPc[k] = "write"

\* C25: the tab lock and the sort lock are never held together by one
\* goroutine and their holder is never at an engine call, a Lock or a Wait;
\* vppLock is held only by a tick or a clear task that is on its way to its
\* Unlock, and is not held once the tick or the task is over, whatever the
\* engine call returned; and whenever a goroutine waits for a lock, some
\* goroutine can step: never are all live goroutines waiting for locks.
C25_NoDeadlock ==
    /\ ~(tabLock # "free" /\ sortLock # "free" /\ tabLock = sortLock)
    /\ tabLock # "free" => AtShortStep(tabLock)
    /\ sortLock # "free" => AtShortStep(sortLock)
    /\ vppLock = "tick" <=> TickInSection
    /\ \A k \in 1..MaxClear : vppLock = ClearId(k) <=> ClearInSection(k)
    /\ WaitingForLock # {} => ENABLED (TickStep \/ UiStep
                                        \/ (\E k \in 1..MaxClear : ClearStep(k))
                                        \/ (\E k \in 1..MaxSort : SortStep(k)))
    /\ LiveTasks # {} => ~(LiveTasks \subseteq WaitingForLock)

\* The tick holds vppLock and the tab lock; a clear task waits for vppLock,
\* the tab-switch callback for the tab lock, and a sort task holds the sort
\* lock.
C25_Witness ==
    /\ tickPc = "tabRead"
    /\ uiPc = "tabLock"
    /\ \A k \in 1..MaxClear : clearPc[k] = "lock"
    /\ \E k \in 1..MaxSort : sortPc[k] = "write"
    /\ Cardinality(WaitingForLock) = MaxClear + 1

(***************************************************************************)
(* The interface cache and the clear tasks.                                *)
(***************************************************************************)
\* Every rate of every row is 0.
ZeroRates(rows) ==
    \A i \in 1..Len(rows) :
        /\ rows[i].RxPps = "0" /\ rows[i].TxPps = "0"
        /\ rows[i].RxBps = "0" /\ rows[i].TxBps = "0"

\* C26: the clear task of the Interfaces tab leaves IfCache empty, whether
\* its clear command succeeded or failed; the clear task of any other tab
\* leaves IfCache as it was; only an Interfaces tick or clear changes
\* IfCache; and an Interfaces tick that finds IfCache empty, as the first one
\* after the clear does, shows a rate of 0 in every row.
C26_ClearEmptiesCache ==
    [][ /\ (op'.name = "Clear" /\ op'.arg = Interfaces) => IfCache' = << >>
        /\ (op'.name = "Clear" /\ op'.arg # Interfaces) => IfCache' = IfCache
        /\ IfCache' # IfCache =>
              op'.name \in {"Tick", "Clear"} /\ op'.arg = Interfaces
        /\ (op'.name = "Tick" /\ op'.arg = Interfaces /\ IfCache = << >>) =>
              ZeroRates(view'[Interfaces]) ]_vars

\* A clear of the Interfaces tab whose command failed has just run: the
\* engine's counters are as they were, above 0, a sample had been cached by
\* a successful tick, and the cache is empty.
C26_Witness ==
    /\ op.name = "Clear" /\ op.arg = Interfaces /\ ~op.ok
    /\ ifCounters[1].rx > 0
    /\ lastGood # << >>
    /\ IfCache = << >>

(***************************************************************************)
(* The goroutines of GetInterfaces end.                                    *)
(***************************************************************************)
\* The two fetch goroutines and the closing goroutine have ended.
GiGoroutinesEnded ==
    /\ closerPc = "done"
    /\ \A f \in Fetches : fetchPc[f] = "done"

\* One step of the goroutines: a send puts exactly the fetch's own result in
\* the channel and is that goroutine's only send; the channel is closed by
\* the closing goroutine's single close, when both fetch goroutines are past
\* their send.
GiStepOk ==
    /\ \A f \in Fetches :
          /\ (fetchPc[f] # "sent" /\ fetchPc'[f] = "sent") =>
                /\ fetchPc[f] = "send"
                /\ errChan' = Append(errChan, fetchErr[f])
          /\ fetchPc[f] \in {"sent", "done"} => fetchPc'[f] \in {"sent", "done", "idle"}
          /\ fetchPc'[f] # "panic"
    /\ Len(errChan') > Len(errChan) =>
          \E f \in Fetches : fetchPc[f] = "send" /\ fetchPc'[f] = "sent"
    /\ (~chanClosed /\ chanClosed') =>
          /\ closerPc = "wait" /\ closerPc' = "done"
          /\ \A f \in Fetches : fetchPc[f] = "done"
    /\ (closerPc = "done" /\ closerPc' = "done") => chanClosed' = chanClosed

\* C27: in every call of GetInterfaces each fetch goroutine sends its one
\* result without waiting for room in errChan, the channel is closed once
\* and after both sends, and once the engine has answered both fetches the
\* fetch goroutines and the closing goroutine end, also when GetInterfaces
\* has returned on the first error.
C27_NoGoroutineLeftBehind ==
    /\ [](/\ Len(errChan) <= ErrChanCap
          /\ \A f \in Fetches : fetchPc[f] = "send" => ENABLED FetchSend(f)
          /\ chanClosed => \A f \in Fetches : fetchPc[f] \in {"done", "idle"})
    /\ [][GiStepOk]_vars
    /\ (giPc = "range") ~> GiGoroutinesEnded
    /\ (giPc = "returned" /\ giRet.err) ~> GiGoroutinesEnded

\* GetInterfaces has returned on the error of the first fetch to reply, the
\* other fetch is still with the engine, and the channel is empty and open.
C27_Witness ==
    /\ giPc = "returned" /\ giRet.err
    /\ \E f \in Fetches : fetchPc[f] = "fetching"
    /\ closerPc = "wait"
    /\ errChan = << >> /\ ~chanClosed

====
